---- MODULE Spec2Model ----
(***************************************************************************)
(* Subnet ranking prediction core of bittensor-labs:                       *)
(*   .github/scripts/predict_subnet_rankings.py  (feature extractor, model)*)
(*   .github/scripts/backtest_predictions.py     (backtest harness)        *)
(*                                                                         *)
(* Representation.                                                         *)
(*  - An instant is an integer number of ticks of 30 minutes since an      *)
(*    epoch that is midnight UTC; a snapshot's "_timestamp" is held as the *)
(*    instant it denotes.                                                  *)
(*  - A snapshot is a dict: a function whose DOMAIN is the set of keys it  *)
(*    has, so a missing "_timestamp" or "entries" is a missing key.        *)
(*  - Python floats are fixed-point integers.  Quantities in [0, 1] are    *)
(*    held in hundredths (One = 1.0); emission shares in hundredths of a  *)
(*    percent; percent changes in whole percent (floor).  exp and the      *)
(*    logistic function are tabulated at that resolution.                  *)
(*  - A probability map is held as exact fractions with one common         *)
(*    denominator: [num |-> [netuid -> Int], den |-> Int].                 *)
(***************************************************************************)
EXTENDS Integers, Sequences, FiniteSets, TLC

VARIABLES
    history,             \* the History handed to the core (list of snapshot dicts)
    now,                 \* datetime.now(timezone.utc), in ticks
    extractor,           \* the SubnetFeatureExtractor object, or its constructor's outcome
    call,                \* the last completed call on the core: operation, arguments, outcome
    features_by_subnet,  \* argument of calculate_probabilities
    model,               \* the RankPredictionModel object: weights, position_penalties
    target_date,         \* argument of calculate_probabilities
    probs,               \* outcome of calculate_probabilities
    tests,               \* argument of calculate_brier_score; the driver's results list
    brier,               \* outcome of calculate_brier_score
    env,                 \* os.environ as the scripts read it at import
    sweep,               \* the backtest driver's position in its sweep loops
    kv,                  \* the Cloudflare KV namespace: key -> stored value
    args                 \* arguments of a helper of services/metrics

\* The variables of the scripts around the core
aux == <<env, sweep, kv, args>>

vars == <<history, now, extractor, call, features_by_subnet, model,
          target_date, probs, tests, brier, env, sweep, kv, args>>

-----------------------------------------------------------------------------
(* Bounds of the model *)

MaxLen == 3          \* longest History of the extractor specification
MaxSubnets == 3      \* most subnets in one features_by_subnet map
MaxTests == 3        \* longest list of backtest results
MaxSnapshots == 49   \* longest History of the minimum-data gate specification
MaxRuns == 2         \* most collector runs in one behaviour
MaxSamples == 4      \* longest issuance history of the metrics helpers
MaxObs == 4          \* longest History of the feature specification
MaxPredictions == 7  \* most probability items formatted in one call
MaxRequests == 3     \* most concurrent requests of the metrics service
MaxClock == 3        \* last second of the clock of the metrics service

-----------------------------------------------------------------------------
(* Units and generic helpers *)

TicksPerHour == 60 \div 30            \* minutes an hour over minutes a tick
TicksPerDay == 24 * TicksPerHour
TickSeconds == 3600 \div TicksPerHour
Hundredths(n) == 100 * n
One == Hundredths(1)                  \* 1.0 in hundredths

Abs(x) == IF x < 0 THEN -x ELSE x
Max(a, b) == IF a >= b THEN a ELSE b
Min(a, b) == IF a <= b THEN a ELSE b

Range(s) == { s[i] : i \in DOMAIN s }

RECURSIVE SumSeq(_)
SumSeq(s) == IF s = <<>> THEN 0 ELSE Head(s) + SumSeq(Tail(s))

\* floor of the square root
RECURSIVE ISqrtFrom(_, _)
ISqrtFrom(n, r) == IF (r + 1) * (r + 1) > n THEN r ELSE ISqrtFrom(n, r + 1)
ISqrt(n) == ISqrtFrom(n, 0)

\* timedelta.days of a difference of two instants (floor, also for negatives)
TimedeltaDays(d) == d \div TicksPerDay

\* timedelta.total_seconds()
TotalSeconds(d) == d * TickSeconds

\* datetime.date(): the calendar day of an instant
DateOf(t) == t \div TicksPerDay

\* round(100 * exp(-g / 50)) for g = 0 .. 299; below half a hundredth after that
ExpTable ==
    << 100, 98, 96, 94, 92, 90, 89, 87, 85, 84, 82, 80, 79, 77, 76, 74, 73, 71, 70, 68,
       67, 66, 64, 63, 62, 61, 59, 58, 57, 56, 55, 54, 53, 52, 51, 50, 49, 48, 47, 46,
       45, 44, 43, 42, 41, 41, 40, 39, 38, 38, 37, 36, 35, 35, 34, 33, 33, 32, 31, 31,
       30, 30, 29, 28, 28, 27, 27, 26, 26, 25, 25, 24, 24, 23, 23, 22, 22, 21, 21, 21,
       20, 20, 19, 19, 19, 18, 18, 18, 17, 17, 17, 16, 16, 16, 15, 15, 15, 14, 14, 14,
       14, 13, 13, 13, 12, 12, 12, 12, 12, 11, 11, 11, 11, 10, 10, 10, 10, 10, 9, 9,
       9, 9, 9, 9, 8, 8, 8, 8, 8, 8, 7, 7, 7, 7, 7, 7, 7, 6, 6, 6,
       6, 6, 6, 6, 6, 6, 5, 5, 5, 5, 5, 5, 5, 5, 5, 5, 4, 4, 4, 4,
       4, 4, 4, 4, 4, 4, 4, 4, 3, 3, 3, 3, 3, 3, 3, 3, 3, 3, 3, 3,
       3, 3, 3, 3, 3, 2, 2, 2, 2, 2, 2, 2, 2, 2, 2, 2, 2, 2, 2, 2,
       2, 2, 2, 2, 2, 2, 2, 2, 2, 2, 1, 1, 1, 1, 1, 1, 1, 1, 1, 1,
       1, 1, 1, 1, 1, 1, 1, 1, 1, 1, 1, 1, 1, 1, 1, 1, 1, 1, 1, 1,
       1, 1, 1, 1, 1, 1, 1, 1, 1, 1, 1, 1, 1, 1, 1, 1, 1, 1, 1, 1,
       1, 1, 1, 1, 1, 0, 0, 0, 0, 0, 0, 0, 0, 0, 0, 0, 0, 0, 0, 0,
       0, 0, 0, 0, 0, 0, 0, 0, 0, 0, 0, 0, 0, 0, 0, 0, 0, 0, 0, 0 >>

\* math.exp(-gap / 50.0) of a non-negative whole gap, in hundredths
ExpNegOver50(g) == IF g + 1 <= Len(ExpTable) THEN ExpTable[g + 1] ELSE 0

\* round(100 / (1 + exp(-x))) for x = -6.0, -5.9, ..., 6.0
SigmoidTable ==
    << 0, 0, 0, 0, 0, 0, 0, 0, 1, 1, 1, 1, 1, 1, 1, 1, 1, 1, 1, 2,
       2, 2, 2, 2, 3, 3, 3, 4, 4, 4, 5, 5, 6, 6, 7, 8, 8, 9, 10, 11,
       12, 13, 14, 15, 17, 18, 20, 21, 23, 25, 27, 29, 31, 33, 35, 38, 40, 43, 45, 48,
       50, 52, 55, 57, 60, 62, 65, 67, 69, 71, 73, 75, 77, 79, 80, 82, 83, 85, 86, 87,
       88, 89, 90, 91, 92, 92, 93, 94, 94, 95, 95, 96, 96, 96, 97, 97, 97, 98, 98, 98,
       98, 98, 99, 99, 99, 99, 99, 99, 99, 99, 99, 99, 99, 100, 100, 100, 100, 100, 100, 100,
       100 >>

-----------------------------------------------------------------------------
(* Data model: RankEntry, Snapshot *)

Entry(rank, id, value) == [rank |-> rank, id |-> id, name |-> id, value |-> value]

Snapshot(ts, entries) == ("_timestamp" :> ts) @@ ("entries" :> entries)

HasTimestamp(s) == "_timestamp" \in DOMAIN s
HasEntries(s) == "entries" \in DOMAIN s
WellFormed(s) == HasTimestamp(s) /\ HasEntries(s)

Netuids == {"a", "b"}

-----------------------------------------------------------------------------
(* SubnetFeatureExtractor *)

\* The value None of an Optional[...] result
None == [is_none |-> TRUE]

\* An exception leaving a call
Raised(exc) == [raised |-> exc]
IsRaised(r) == "raised" \in DOMAIN r

\* A value returned by a call that may also raise
Returned(v) == [value |-> v]

\* sorted(snapshots, key=lambda x: x['ts_dt']): stable, oldest first
RECURSIVE InsertByTs(_, _)
InsertByTs(sorted, x) ==
    IF sorted = <<>> THEN <<x>>
    ELSE IF sorted[Len(sorted)].ts_dt <= x.ts_dt THEN Append(sorted, x)
    ELSE Append(InsertByTs(SubSeq(sorted, 1, Len(sorted) - 1), x), sorted[Len(sorted)])

RECURSIVE SortedByTs(_)
SortedByTs(s) ==
    IF s = <<>> THEN <<>>
    ELSE InsertByTs(SortedByTs(SubSeq(s, 1, Len(s) - 1)), s[Len(s)])

\* _calculate_cutoff: the instant returned, or the KeyError of
\* history[-1]['_timestamp']
calculate_cutoff(h, lookback_days, t_now) ==
    IF h = <<>> THEN Returned(t_now)
    ELSE IF ~HasTimestamp(h[Len(h)]) THEN Raised("KeyError")
    ELSE Returned(h[Len(h)]["_timestamp"] - lookback_days * TicksPerDay)

\* The observations one snapshot adds to the index (snapshot.get('entries', []))
ObservationsOf(snapshot) ==
    IF HasEntries(snapshot)
    THEN [i \in 1..Len(snapshot["entries"]) |->
            [timestamp |-> snapshot["_timestamp"],
             rank      |-> snapshot["entries"][i].rank,
             name      |-> snapshot["entries"][i].name,
             value     |-> snapshot["entries"][i].value,
             ts_dt     |-> snapshot["_timestamp"],
             id        |-> snapshot["entries"][i].id]]
    ELSE <<>>

\* The empty defaultdict(list)
EmptyIndex == [keys |-> <<>>, obs |-> <<>>]

\* indexed[subnet_id].append(...) for each observation, on a defaultdict(list)
\* that keeps its keys in insertion order
RECURSIVE AppendAll(_, _)
AppendAll(indexed, obs) ==
    IF obs = <<>> THEN indexed
    ELSE LET o == Head(obs)
             e == [timestamp |-> o.timestamp, rank |-> o.rank, name |-> o.name,
                   value |-> o.value, ts_dt |-> o.ts_dt]
             next == IF o.id \in DOMAIN indexed.obs
                     THEN [keys |-> indexed.keys,
                           obs  |-> [indexed.obs EXCEPT ![o.id] = Append(@, e)]]
                     ELSE [keys |-> Append(indexed.keys, o.id),
                           obs  |-> indexed.obs @@ (o.id :> <<e>>)]
         IN AppendAll(next, Tail(obs))

\* _index_by_subnet: the loop over self.history on the snapshots at positions
\* lo..hi, in order, starting from the index built so far; a KeyError of
\* snapshot['_timestamp'] ends the loop.  The range is halved so that the
\* evaluation nests only logarithmically deep in its length.
RECURSIVE IndexBetween(_, _, _, _, _)
IndexBetween(h, lo, hi, cutoff_time, indexed) ==
    IF IsRaised(indexed) \/ lo > hi THEN indexed
    ELSE IF lo < hi
         THEN IndexBetween(h, (lo + hi) \div 2 + 1, hi, cutoff_time,
                           IndexBetween(h, lo, (lo + hi) \div 2, cutoff_time, indexed))
    ELSE IF ~HasTimestamp(h[lo]) THEN Raised("KeyError")
    ELSE IF h[lo]["_timestamp"] < cutoff_time THEN indexed
    ELSE AppendAll(indexed, ObservationsOf(h[lo]))

index_by_subnet(h, cutoff_time) == IndexBetween(h, 1, Len(h), cutoff_time, EmptyIndex)

\* SubnetFeatureExtractor.__init__: the object, or the exception it raises
NewExtractor(h, lookback_days, t_now) ==
    LET cutoff == calculate_cutoff(h, lookback_days, t_now)
    IN IF IsRaised(cutoff) THEN cutoff
       ELSE LET indexed == index_by_subnet(h, cutoff.value)
            IN IF IsRaised(indexed) THEN indexed
               ELSE [lookback_days |-> lookback_days,
                     cutoff_time |-> cutoff.value,
                     subnet_snapshots |-> indexed]

IsExtractor(x) == "subnet_snapshots" \in DOMAIN x

\* self._subnet_snapshots.get(netuid)
SnapshotsOf(ex, netuid) ==
    IF netuid \in DOMAIN ex.subnet_snapshots.obs
    THEN ex.subnet_snapshots.obs[netuid] ELSE <<>>

\* _extract_rank_features with the recent delta taken from snapshots[-3]
extract_rank_features_TwoAgo(snapshots) ==
    LET n == Len(snapshots)
        current_rank == snapshots[n].rank
        ranks == [i \in 1..n |-> snapshots[i].rank]
        rank_delta_recent == IF n >= 3 THEN snapshots[n - 2].rank - current_rank ELSE 0
        snapshots_7d == SelectSeq(snapshots,
            LAMBDA s : TimedeltaDays(snapshots[n].ts_dt - s.ts_dt) <= 7)
        rank1_count == Len(SelectSeq(ranks, LAMBDA r : r = 1))
        sum_ranks == SumSeq(ranks)
        var_nn == n * SumSeq([i \in 1..n |-> ranks[i] * ranks[i]]) - sum_ranks * sum_ranks
    IN [rank_delta_recent |-> rank_delta_recent,
        rank_delta_7d |-> IF Len(snapshots_7d) >= 2
                          THEN snapshots_7d[1].rank - current_rank
                          ELSE rank_delta_recent,
        rank1_frequency |-> (One * rank1_count) \div n,
        rank_stability |-> IF n >= 3 THEN (One * n) \div (n + ISqrt(var_nn))
                           ELSE One \div 2,
        avg_rank |-> (One * sum_ranks) \div n]

\* _extract_rank_features, on the subnet's observations sorted oldest first
extract_rank_features(snapshots) ==
    LET n == Len(snapshots)
        current_rank == snapshots[n].rank
        ranks == [i \in 1..n |-> snapshots[i].rank]
        rank_delta_recent == IF n >= 2 THEN snapshots[n - 1].rank - current_rank ELSE 0
        snapshots_7d == SelectSeq(snapshots,
            LAMBDA s : TimedeltaDays(snapshots[n].ts_dt - s.ts_dt) <= 7)
        rank1_count == Len(SelectSeq(ranks, LAMBDA r : r = 1))
        sum_ranks == SumSeq(ranks)
        \* n * n * variance
        var_nn == n * SumSeq([i \in 1..n |-> ranks[i] * ranks[i]]) - sum_ranks * sum_ranks
    IN [rank_delta_recent |-> rank_delta_recent,
        rank_delta_7d |-> IF Len(snapshots_7d) >= 2
                          THEN snapshots_7d[1].rank - current_rank
                          ELSE rank_delta_recent,
        rank1_frequency |-> (One * rank1_count) \div n,
        rank_stability |-> IF n >= 3 THEN (One * n) \div (n + ISqrt(var_nn))
                           ELSE One \div 2,
        avg_rank |-> (One * sum_ranks) \div n]

\* ((new - old) / old) * 100 when old > 0, else 0
PctChange(new, old) == IF old > 0 THEN ((new - old) * 100) \div old ELSE 0

DAILY_EMISSION == 7200

\* _extract_emission_features
extract_emission_features(snapshots) ==
    LET n == Len(snapshots)
        current_emission == snapshots[n].value
        emissions == [i \in 1..n |-> snapshots[i].value]
        pct_recent == IF n >= 2 THEN PctChange(current_emission, snapshots[n - 1].value)
                      ELSE 0
        snapshots_7d == SelectSeq(snapshots,
            LAMBDA s : TimedeltaDays(snapshots[n].ts_dt - s.ts_dt) <= 7)
        sum_e == SumSeq(emissions)
        \* n * n * variance
        var_nn == n * SumSeq([i \in 1..n |-> emissions[i] * emissions[i]]) - sum_e * sum_e
        volatility == IF n >= 3 /\ sum_e > 0 THEN (One * ISqrt(var_nn)) \div sum_e ELSE 0
        older_change == IF n >= 4 THEN PctChange(snapshots[n - 2].value, snapshots[n - 3].value)
                        ELSE 0
    IN [emission_share_current |-> (current_emission * 100 * One) \div DAILY_EMISSION,
        emission_pct_change_recent |-> pct_recent,
        emission_pct_change_7d |-> IF Len(snapshots_7d) >= 2
                                   THEN PctChange(current_emission, snapshots_7d[1].value)
                                   ELSE pct_recent,
        emission_volatility |-> volatility,
        share_stability |-> IF n >= 3
                            THEN (IF sum_e > 0 THEN (One * sum_e) \div (sum_e + ISqrt(var_nn))
                                  ELSE One)
                            ELSE One \div 2,
        emission_momentum |-> IF n >= 3 THEN pct_recent - older_change ELSE 0]

\* The inner loop of the leader search: the first observation of one subnet
\* that lies within one hour of current_timestamp and has rank 1 sets
\* leader_emission; without one, leader_emission keeps its value
RECURSIVE LeaderInSubnet(_, _, _)
LeaderInSubnet(other_snapshots, current_timestamp, leader_emission) ==
    IF other_snapshots = <<>> THEN leader_emission
    ELSE LET snap == Head(other_snapshots)
         IN IF /\ Abs(TotalSeconds(snap.ts_dt - current_timestamp)) < 3600
               /\ snap.rank = 1
            THEN Returned(snap.value)
            ELSE LeaderInSubnet(Tail(other_snapshots), current_timestamp, leader_emission)

\* The outer loop over self._subnet_snapshots.items(), in insertion order;
\* "if leader_emission: break" leaves it on a leader emission that is not 0
RECURSIVE LeaderSearch(_, _, _, _)
LeaderSearch(indexed, k, current_timestamp, leader_emission) ==
    IF k > Len(indexed.keys) THEN leader_emission
    ELSE LET found == LeaderInSubnet(indexed.obs[indexed.keys[k]],
                                     current_timestamp, leader_emission)
         IN IF found # None /\ found.value # 0 THEN found
            ELSE LeaderSearch(indexed, k + 1, current_timestamp, found)

\* _extract_gap_features
extract_gap_features(ex, snapshots, existing_features) ==
    LET n == Len(snapshots)
        current_emission == snapshots[n].value
        current_timestamp == snapshots[n].ts_dt
        leader_emission == LeaderSearch(ex.subnet_snapshots, 1, current_timestamp, None)
        no_leader == leader_emission = None \/ leader_emission.value = 0
        gap == leader_emission.value - current_emission
        gap_to_leader == IF no_leader
                         THEN (IF snapshots[n].rank = 1 THEN 0 ELSE 100)
                         ELSE Max(0, gap)
        gap_normalized == IF no_leader
                          THEN (IF snapshots[n].rank = 1 THEN One ELSE 0)
                          ELSE ExpNegOver50(Max(0, gap))
        emission_trend == existing_features.emission_pct_change_7d
        \* growth_per_day = current_emission * (emission_trend / 100.0) / 7.0
        growth_700 == current_emission * emission_trend
    IN [emission_gap_to_leader |-> gap_to_leader,
        emission_gap_normalized |-> gap_normalized,
        gap_closing_feasibility |->
            IF gap_to_leader = 0 THEN One
            ELSE IF current_emission = 0 \/ emission_trend <= 0 THEN 0
            ELSE IF growth_700 > 0
                 \* 1.0 - (days_to_close - 15) / 45.0, days_to_close = gap / growth_per_day
                 THEN Max(0, Min(One,
                        (One * (60 * growth_700 - 700 * gap_to_leader)) \div (45 * growth_700)))
                 ELSE 0]

\* The loop of _extract_tenure_features: top3_days after the observations
RECURSIVE Top3Days(_, _, _)
Top3Days(snapshots, top3_days, prev_date) ==
    IF snapshots = <<>> THEN top3_days
    ELSE LET snap == Head(snapshots)
             current_date == Returned(DateOf(snap.ts_dt))
         IN IF snap.rank <= 3 /\ (prev_date = None \/ current_date # prev_date)
            THEN Top3Days(Tail(snapshots), top3_days + 1, current_date)
            ELSE Top3Days(Tail(snapshots), top3_days, prev_date)

\* _extract_tenure_features that counts every observation in the top 3
extract_tenure_features_EveryObservation(snapshots) ==
    [top3_tenure |-> Min(One, (One * Len(SelectSeq(snapshots, LAMBDA s : s.rank <= 3))) \div 14)]

\* _extract_tenure_features
extract_tenure_features(snapshots) ==
    [top3_tenure |-> Min(One, (One * Top3Days(snapshots, 0, None)) \div 14)]

\* The body of extract_features past the data gate: the feature vector built
\* from the subnet's observations
FeatureVector(ex, unsorted) ==
    LET snapshots == SortedByTs(unsorted)
        current == snapshots[Len(snapshots)]
        rank_f == extract_rank_features(snapshots)
        emission_f == extract_emission_features(snapshots)
        gap_f == extract_gap_features(ex, snapshots, emission_f)
        tenure_f == extract_tenure_features(snapshots)
    IN [current_rank |-> current.rank,
        current_emission |-> current.value,
        subnet_name |-> current.name]
       @@ rank_f @@ emission_f @@ gap_f @@ tenure_f

\* extract_features with the gate off by one: two observations pass
extract_features_Gate2(ex, netuid) ==
    IF Len(SnapshotsOf(ex, netuid)) < 2 THEN None
    ELSE FeatureVector(ex, SnapshotsOf(ex, netuid))

\* extract_features: None, or the feature vector of the subnet
extract_features(ex, netuid) ==
    IF Len(SnapshotsOf(ex, netuid)) < 3 THEN None
    ELSE FeatureVector(ex, SnapshotsOf(ex, netuid))

\* get_all_subnet_ids
get_all_subnet_ids(ex) == ex.subnet_snapshots.keys

-----------------------------------------------------------------------------
(* RankPredictionModel *)

\* Weights in hundredths
FEATURE_WEIGHTS ==
    [current_rank_inverse    |-> 10,
     rank1_frequency         |-> 10,
     rank_velocity_weighted  |-> 5,
     top3_tenure             |-> 10,
     emission_share_current  |-> 15,
     emission_gap_normalized |-> 20,
     emission_trend_7d       |-> 8,
     emission_momentum       |-> 4,
     gap_closing_feasibility |-> 3,
     share_stability         |-> 8,
     rank_stability          |-> 7]

\* Base penalties of ranks 1..10 in hundredths
POSITION_PENALTIES == <<100, 95, 85, 70, 55, 42, 30, 20, 12, 8>>

\* RankPredictionModel.__init__
NewModel(w, position_penalties) ==
    [weights |-> w, position_penalties |-> position_penalties]

\* dict.get(key, default)
Get(d, key, default) == IF key \in DOMAIN d THEN d[key] ELSE default

\* _sigmoid with steepness 1, of an argument in tenths, in hundredths;
\* where math.exp overflows the except clause returns 0.5
sigmoid(x10) ==
    IF x10 < -7097 THEN One \div 2
    ELSE IF x10 < -60 THEN 0
    ELSE IF x10 > 60 THEN One
    ELSE SigmoidTable[x10 + 61]

\* The components of _calculate_score, in hundredths
Components(features) ==
    [current_rank_inverse    |-> One \div Max(1, features.current_rank),
     rank1_frequency         |-> Get(features, "rank1_frequency", 0),
     rank_velocity_weighted  |-> sigmoid(Get(features, "rank_delta_7d", 0)
                                         + Get(features, "rank_delta_recent", 0)),
     top3_tenure             |-> Get(features, "top3_tenure", 0),
     emission_share_current  |-> Get(features, "emission_share_current", 0) \div 100,
     emission_gap_normalized |-> Get(features, "emission_gap_normalized", 0),
     emission_trend_7d       |-> sigmoid(Get(features, "emission_pct_change_7d", 0)),
     emission_momentum       |-> sigmoid(2 * Get(features, "emission_momentum", 0)),
     gap_closing_feasibility |-> Get(features, "gap_closing_feasibility", 0),
     share_stability         |-> Get(features, "share_stability", One \div 2),
     rank_stability          |-> Get(features, "rank_stability", One \div 2)]

RECURSIVE SumOver(_, _)
SumOver(f, S) ==
    IF S = {} THEN 0
    ELSE LET k == CHOOSE x \in S : TRUE IN f[k] + SumOver(f, S \ {k})

\* _calculate_score with the weighted sum taken relative to the neutral 0.5
calculate_score_AboveNeutral(mdl, features) ==
    LET components == Components(features)
        score == SumOver([key \in DOMAIN mdl.weights |->
                            Get(components, key, 0) * mdl.weights[key]],
                         DOMAIN mdl.weights)
    IN Max(0, Min(One * One, score - (One * One) \div 2))

\* _calculate_score: the weighted sum clamped to [0, 1], in ten-thousandths
calculate_score(mdl, features) ==
    LET components == Components(features)
        score == SumOver([key \in DOMAIN mdl.weights |->
                            Get(components, key, 0) * mdl.weights[key]],
                         DOMAIN mdl.weights)
    IN Max(0, Min(One * One, score))

\* _position_penalty as computed with the 0.3 of the time adjustment left out
position_penalty_FullRelax(mdl, rank, days_until) ==
    LET clamped == IF rank < 1 THEN 1 ELSE IF rank > 10 THEN 10 ELSE rank
        base_penalty == Get(mdl.position_penalties, clamped, 5)
    IN ((base_penalty * 30 + (One - base_penalty) * Min(30, days_until)) * 10) \div 3

\* _position_penalty, in ten-thousandths:
\* base + (1 - base) * min(1, days_until / 30) * 0.3
position_penalty(mdl, rank, days_until) ==
    LET clamped == IF rank < 1 THEN 1 ELSE IF rank > 10 THEN 10 ELSE rank
        base_penalty == Get(mdl.position_penalties, clamped, 5)
    IN base_penalty * 100 + (One - base_penalty) * Min(30, days_until)

\* The empty dict
EmptyMap == [k \in {} |-> 0]

\* A probability map: fractions num[k] / den
Fractions(num, den) == [num |-> num, den |-> den]

\* Normalisation by the largest adjusted score instead of their sum
RECURSIVE MaxOver(_, _)
MaxOver(f, S) ==
    IF S = {} THEN 0
    ELSE LET k == CHOOSE x \in S : TRUE IN Max(f[k], MaxOver(f, S \ {k}))

Normalize_ByMax(adjusted) ==
    LET total == MaxOver(adjusted, DOMAIN adjusted)
    IN IF total = 0
       THEN Fractions([k \in DOMAIN adjusted |-> 1], Cardinality(DOMAIN adjusted))
       ELSE Fractions(adjusted, total)

\* Normalisation without the branch for a zero total
Normalize_NoFallback(adjusted) ==
    LET total == SumOver(adjusted, DOMAIN adjusted)
    IN IF total = 0 THEN Raised("ZeroDivisionError")
       ELSE Fractions(adjusted, total)

\* "Normalize to probabilities" of calculate_probabilities
Normalize(adjusted) ==
    LET total == SumOver(adjusted, DOMAIN adjusted)
    IN IF total = 0
       THEN Fractions([k \in DOMAIN adjusted |-> 1], Cardinality(DOMAIN adjusted))
       ELSE Fractions(adjusted, total)

\* days_until of calculate_probabilities
DaysUntil(target, t_now) == Max(1, TimedeltaDays(target - t_now))

\* calculate_probabilities
calculate_probabilities(mdl, fbs, target, t_now) ==
    LET included == {k \in DOMAIN fbs : fbs[k] # None}
        scores == [k \in included |-> calculate_score(mdl, fbs[k])]
        days_until == DaysUntil(target, t_now)
        adjusted == [k \in included |->
                       scores[k] * position_penalty(mdl, fbs[k].current_rank, days_until)]
    IN IF included = {} THEN Fractions(EmptyMap, 1)
       ELSE Normalize(adjusted)

-----------------------------------------------------------------------------
(* Backtest harness *)

BACKTEST_PREDICTION_WINDOWS == <<7, 14, 30>>

\* Position of the first snapshot without "_timestamp", 0 when there is none:
\* where a loop reading snapshot['_timestamp'] raises KeyError
RECURSIVE FirstWithoutTimestamp(_, _)
FirstWithoutTimestamp(h, i) ==
    IF i > Len(h) THEN 0
    ELSE IF ~HasTimestamp(h[i]) THEN i
    ELSE FirstWithoutTimestamp(h, i + 1)

\* The loop of find_snapshot_at_time from position i on; closest is None or
\* the snapshot kept so far, min_diff its distance (infinity while closest is None)
RECURSIVE ClosestFrom(_, _, _, _, _)
ClosestFrom(h, i, target_time, closest, min_diff) ==
    IF i > Len(h) THEN Returned(closest)
    ELSE IF ~HasTimestamp(h[i]) THEN Raised("KeyError")
    ELSE LET snap_time == h[i]["_timestamp"]
             diff == TotalSeconds(target_time - snap_time)
         IN IF snap_time > target_time
            THEN ClosestFrom(h, i + 1, target_time, closest, min_diff)
            ELSE IF closest = None \/ diff < min_diff
                 THEN ClosestFrom(h, i + 1, target_time, h[i], diff)
                 ELSE ClosestFrom(h, i + 1, target_time, closest, min_diff)

\* find_snapshot_at_time that takes the snapshot nearest in time on either side
RECURSIVE NearestFrom(_, _, _, _, _)
NearestFrom(h, i, target_time, closest, min_diff) ==
    IF i > Len(h) THEN Returned(closest)
    ELSE IF ~HasTimestamp(h[i]) THEN Raised("KeyError")
    ELSE LET diff == Abs(TotalSeconds(target_time - h[i]["_timestamp"]))
         IN IF closest = None \/ diff < min_diff
            THEN NearestFrom(h, i + 1, target_time, h[i], diff)
            ELSE NearestFrom(h, i + 1, target_time, closest, min_diff)

find_snapshot_at_time_Nearest(h, target_time) == NearestFrom(h, 1, target_time, None, 0)

\* find_snapshot_at_time that lets a later snapshot of equal distance replace
\* the one kept so far
RECURSIVE LastClosestFrom(_, _, _, _, _)
LastClosestFrom(h, i, target_time, closest, min_diff) ==
    IF i > Len(h) THEN Returned(closest)
    ELSE IF ~HasTimestamp(h[i]) THEN Raised("KeyError")
    ELSE LET snap_time == h[i]["_timestamp"]
             diff == TotalSeconds(target_time - snap_time)
         IN IF snap_time > target_time
            THEN LastClosestFrom(h, i + 1, target_time, closest, min_diff)
            ELSE IF closest = None \/ diff <= min_diff
                 THEN LastClosestFrom(h, i + 1, target_time, h[i], diff)
                 ELSE LastClosestFrom(h, i + 1, target_time, closest, min_diff)

find_snapshot_at_time_LastOnTie(h, target_time) ==
    LastClosestFrom(h, 1, target_time, None, 0)

\* find_snapshot_at_time: Returned(None), Returned(snapshot) or a KeyError
find_snapshot_at_time(h, target_time) == ClosestFrom(h, 1, target_time, None, 0)

\* The training_data comprehension of run_backtest
TrainingData(h, test_date) ==
    SelectSeq(h, LAMBDA s : s["_timestamp"] <= test_date)

\* run_backtest.  The call SubnetFeatureExtractor(training_data) passes one
\* argument to a constructor that requires two (history, lookback_days), so
\* past the minimum-data gate the call raises TypeError and the remainder of
\* the function never runs.
run_backtest(h, test_date, prediction_window_days) ==
    IF FirstWithoutTimestamp(h, 1) # 0 THEN Raised("KeyError")
    ELSE LET training_data == TrainingData(h, test_date)
         IN IF Len(training_data) < 48
            THEN Returned([status |-> "insufficient_data",
                           error  |-> Len(training_data)])
            ELSE Raised("TypeError")

\* Entries of a list of backtest results
SuccessResult(p, correct) ==
    [status |-> "success", predicted_probability |-> p, prediction_correct |-> correct]

FailedResult(status, detail) == [status |-> status, error |-> detail]

\* (predicted_prob - actual_outcome) ** 2 of one result, in ten-thousandths
BrierTerm(test) ==
    LET predicted_prob == Get(test, "predicted_probability", 0)
        actual_outcome == IF Get(test, "prediction_correct", FALSE) THEN One ELSE 0
    IN (predicted_prob - actual_outcome) * (predicted_prob - actual_outcome)

\* float('inf')
Infinity == [inf |-> TRUE]

\* The mean sum / count, as a fraction of ten-thousandths
Mean(scores) ==
    IF scores = <<>> THEN Infinity
    ELSE [sum |-> SumSeq(scores), count |-> Len(scores)]

\* calculate_brier_score without the status test
calculate_brier_score_AnyStatus(results) ==
    Mean([i \in 1..Len(results) |-> BrierTerm(results[i])])

\* calculate_brier_score
calculate_brier_score(results) ==
    LET scored == SelectSeq(results, LAMBDA test : Get(test, "status", "") = "success")
    IN Mean([i \in 1..Len(scored) |-> BrierTerm(scored[i])])

\* main of backtest_predictions.py, history loading: snapshots whose timestamp
\* cannot be read are dropped by "except: continue", the rest is sorted by time
ParsedHistory(h) == SelectSeq(h, HasTimestamp)

RECURSIVE InsertByTimestamp(_, _)
InsertByTimestamp(sorted, s) ==
    IF sorted = <<>> THEN <<s>>
    ELSE IF sorted[Len(sorted)]["_timestamp"] <= s["_timestamp"] THEN Append(sorted, s)
    ELSE Append(InsertByTimestamp(SubSeq(sorted, 1, Len(sorted) - 1), s),
                sorted[Len(sorted)])

RECURSIVE SortedByTimestamp(_)
SortedByTimestamp(h) ==
    IF h = <<>> THEN <<>>
    ELSE InsertByTimestamp(SortedByTimestamp(SubSeq(h, 1, Len(h) - 1)), h[Len(h)])

\* Outcome of the loading part of main: sys.exit(1) on an empty history,
\* IndexError at history_with_time[0] when no snapshot has a timestamp,
\* else the sorted history with its oldest and newest instants
LoadHistory(h) ==
    IF h = <<>> THEN Raised("SystemExit")
    ELSE LET sorted == SortedByTimestamp(ParsedHistory(h))
         IN IF sorted = <<>> THEN Raised("IndexError")
            ELSE Returned([history |-> sorted,
                           oldest  |-> sorted[1]["_timestamp"],
                           newest  |-> sorted[Len(sorted)]["_timestamp"]])

\* main of backtest_predictions.py, the sweep: first and last test date of a
\* window, the test of the while loop, the results that count
TestStart(oldest) == oldest + 28 * TicksPerDay

TestEnd(newest, window_days) == newest - window_days * TicksPerDay

\* A loop test that lets an eleventh test through
WhileCondition_ElevenTests(current_test_date, test_end, test_count) ==
    current_test_date <= test_end /\ test_count <= 10

WhileCondition(current_test_date, test_end, test_count) ==
    current_test_date <= test_end /\ test_count < 10

SuccessfulTests(results) ==
    SelectSeq(results, LAMBDA r : Get(r, "status", "") = "success")

-----------------------------------------------------------------------------
(* The collectors of top_subnets_history:                                   *)
(*   .github/scripts/publish_top_history.py, backfill_subnet_history.py     *)
(* A JSON number is held as [num |-> n], a JSON string as [str |-> s], a    *)
(* JSON list where null may stand as [list |-> l], null as None.  Emissions of the publisher's API are whole TAO per day; raw    *)
(* emissions of Taostats are multiples of 1250000, which is 9 TAO per day.  *)

Num(n) == [num |-> n]
Str(s) == [str |-> s]
List(l) == [list |-> l]

\* Truth value of a JSON value, and Python's "a or b"
Falsy(v) == v = None \/ v = Num(0) \/ v = Str("")
Or(a, b) == IF Falsy(a) THEN b ELSE a

\* float(v) inside "try ... except: 0.0": text that is no number, and null, give 0.0
FloatOrZero(v) == IF "num" \in DOMAIN v THEN v.num ELSE 0

\* round(x, 2) of a whole number
Round2(x) == x

\* str(v) of a netuid
DigitStrings == << "0", "1", "2", "3", "4", "5", "6", "7", "8", "9" >>
StrOf(v) ==
    IF "num" \in DOMAIN v THEN DigitStrings[v.num + 1]
    ELSE IF "str" \in DOMAIN v THEN v.str
    ELSE "None"

\* The KV namespace.  get_from_kv returns None for a key that is not stored
\* and also when the request fails (ok = FALSE); put_to_kv stores the value
\* unless the request fails
get_from_kv(store, key, ok) ==
    IF ok /\ key \in DOMAIN store THEN store[key] ELSE None

put_to_kv(store, key, data, ok) ==
    IF ok THEN [k \in DOMAIN store \cup {key} |-> IF k = key THEN data ELSE store[k]]
    ELSE store

\* isinstance(v, list); a stored value that is no list
IsList(v) == "list" \in DOMAIN v
NotAList == [dict |-> EmptyMap]

\* process_subnets of publish_top_history.py; iterating a null top_subnets
\* raises TypeError
SubnetEntry(i, s) ==
    LET netuid == Get(s, "netuid", Num(0))
        name == Or(Or(Get(s, "taostats_name", None), Get(s, "subnet_name", None)),
                   Str("SN" \o StrOf(netuid)))
        emission == Or(Get(s, "estimated_emission_daily", Num(0)),
                       Get(s, "emission", Num(0)))
    IN [rank |-> i, id |-> StrOf(netuid), name |-> name.str,
        value |-> Round2(FloatOrZero(emission))]

process_subnets(data) ==
    LET subnets == Get(data, "top_subnets", List(<< >>))
    IN IF subnets = None THEN Raised("TypeError")
       ELSE Returned([i \in 1..Len(subnets.list) |-> SubnetEntry(i, subnets.list[i])])

\* append_to_history(history_key, new_entry) of publish_top_history.py: the
\* list to store and the store after put_to_kv
\* s[-n:] for n >= 0; s[-0:] is the whole list
LastN(s, n) ==
    IF n = 0 \/ n >= Len(s) THEN s ELSE SubSeq(s, Len(s) - n + 1, Len(s))

AppendedHistory(stored, new_entry, max_history_entries) ==
    LET appended == Append(IF IsList(stored) THEN stored.list ELSE << >>, new_entry)
    IN List(IF Len(appended) > max_history_entries
            THEN LastN(appended, max_history_entries)
            ELSE appended)

append_to_history(store, history_key, new_entry, max_history_entries, get_ok, put_ok) ==
    put_to_kv(store, history_key,
              AppendedHistory(get_from_kv(store, history_key, get_ok), new_entry,
                              max_history_entries),
              put_ok)

\* backfill_subnet_history.py.  emission_raw / 1e9 * 7200 in whole TAO
DailyEmission(emission_raw) == (emission_raw * 9) \div 1250000

\* The records that carry a netuid, as the subnets_with_emission list;
\* int(netuid) raises ValueError on a netuid that is no number
IntRaises(records) ==
    \E i \in 1..Len(records) :
        /\ Get(records[i], "netuid", None) # None
        /\ "num" \notin DOMAIN records[i]["netuid"]

SubnetsWithEmission(records) ==
    LET kept == SelectSeq(records, LAMBDA r : Get(r, "netuid", None) # None)
    IN [i \in 1..Len(kept) |->
          [netuid |-> kept[i]["netuid"].num,
           name |-> Or(Get(kept[i], "name", None),
                       Str("SN" \o StrOf(kept[i]["netuid"]))).str,
           daily_emission |->
               DailyEmission(FloatOrZero(Or(Get(kept[i], "emission", Num(0)), Num(0))))]]

\* list.sort(key=daily_emission, reverse=True): stable, largest first
RECURSIVE InsertByEmission(_, _)
InsertByEmission(sorted, x) ==
    IF sorted = << >> THEN << x >>
    ELSE IF sorted[Len(sorted)].daily_emission >= x.daily_emission THEN Append(sorted, x)
    ELSE Append(InsertByEmission(SubSeq(sorted, 1, Len(sorted) - 1), x),
                sorted[Len(sorted)])

RECURSIVE SortedByEmission(_)
SortedByEmission(l) ==
    IF l = << >> THEN << >>
    ELSE InsertByEmission(SortedByEmission(SubSeq(l, 1, Len(l) - 1)), l[Len(l)])

\* An enumerate that starts at 0
RankedEntries_FromZero(sorted) ==
    [i \in 1..Len(sorted) |->
        [rank |-> i - 1, id |-> StrOf(Num(sorted[i].netuid)), name |-> sorted[i].name,
         value |-> Round2(sorted[i].daily_emission)]]

\* for i, s in enumerate(..., 1): entries.append({'rank': i, ...})
RankedEntries(sorted) ==
    [i \in 1..Len(sorted) |->
        [rank |-> i, id |-> StrOf(Num(sorted[i].netuid)), name |-> sorted[i].name,
         value |-> Round2(sorted[i].daily_emission)]]

create_snapshot_from_records(records, timestamp) ==
    IF IntRaises(records) THEN Raised("ValueError")
    ELSE Returned(Snapshot(timestamp,
                           RankedEntries(SortedByEmission(SubnetsWithEmission(records)))))

\* group_by_timestamp: the hour a record falls in, None for a record without
\* a timestamp or with one that cannot be parsed; the records of each hour
HourOf(t) == (t \div TicksPerHour) * TicksPerHour

RecordHour(record) ==
    LET ts == Or(Get(record, "timestamp", None), Get(record, "created_at", None))
    IN IF Falsy(ts) \/ "num" \notin DOMAIN ts THEN None ELSE Num(HourOf(ts.num))

group_by_timestamp(records) ==
    LET hours == { RecordHour(records[i]) : i \in 1..Len(records) } \ {None}
    IN [hour_key \in { h.num : h \in hours } |->
           SelectSeq(records, LAMBDA r : RecordHour(r) = Num(hour_key))]

\* sorted(grouped.keys())
RECURSIVE SortedKeys(_)
SortedKeys(S) ==
    IF S = {} THEN << >>
    ELSE LET least == CHOOSE x \in S : \A y \in S : x <= y
         IN << least >> \o SortedKeys(S \ {least})

\* main, lines 334-342: one snapshot for each hour not before the cutoff whose
\* records give entries; an exception skips the hour
RECURSIVE SnapshotsFromGroups(_, _, _)
SnapshotsFromGroups(grouped, keys, cutoff) ==
    IF keys = << >> THEN << >>
    ELSE LET ts_key == Head(keys)
             rest == SnapshotsFromGroups(grouped, Tail(keys), cutoff)
             snapshot == create_snapshot_from_records(grouped[ts_key], ts_key)
         IN IF ts_key >= cutoff /\ ~IsRaised(snapshot)
               /\ snapshot.value["entries"] # << >>
            THEN << snapshot.value >> \o rest
            ELSE rest

\* generate_synthetic_history(current_subnets, days, interval_hours)
generate_synthetic_history(current_subnets, days, interval_hours, t_now) ==
    IF interval_hours = 0 THEN Raised("ZeroDivisionError")
    ELSE IF IntRaises(current_subnets) THEN Raised("ValueError")
    ELSE LET num_snapshots == (days * 24) \div interval_hours
             entries == RankedEntries(SortedByEmission(SubnetsWithEmission(current_subnets)))
         IN Returned([j \in 1..num_snapshots |->
                         Snapshot(t_now - (num_snapshots - j) * interval_hours * TicksPerHour,
                                  entries)])

\* combined.sort(key=lambda x: x.get('_timestamp', '')): stable; a snapshot
\* without a timestamp sorts before every other
KeyLeq(a, b) ==
    ~HasTimestamp(a) \/ (HasTimestamp(b) /\ a["_timestamp"] <= b["_timestamp"])

RECURSIVE InsertByKey(_, _)
InsertByKey(sorted, x) ==
    IF sorted = << >> THEN << x >>
    ELSE IF KeyLeq(sorted[Len(sorted)], x) THEN Append(sorted, x)
    ELSE Append(InsertByKey(SubSeq(sorted, 1, Len(sorted) - 1), x), sorted[Len(sorted)])

RECURSIVE SortedByKey(_)
SortedByKey(l) ==
    IF l = << >> THEN << >>
    ELSE InsertByKey(SortedByKey(SubSeq(l, 1, Len(l) - 1)), l[Len(l)])

MAX_ENTRIES == 672

\* main, lines 373-396: the backfilled snapshots whose timestamp is not stored
\* yet, put before the stored ones, sorted, trimmed to the newest MAX_ENTRIES
MergedHistory(existing, snapshots) ==
    LET existing_timestamps ==
            { existing[i]["_timestamp"] :
                  i \in { j \in 1..Len(existing) : HasTimestamp(existing[j]) } }
        new_entries ==
            SelectSeq(snapshots,
                      LAMBDA x : ~(HasTimestamp(x) /\ x["_timestamp"] \in existing_timestamps))
        combined == SortedByKey(new_entries \o existing)
    IN List(IF Len(combined) > MAX_ENTRIES THEN LastN(combined, MAX_ENTRIES) ELSE combined)

-----------------------------------------------------------------------------
(* services/metrics/helpers.py: averages of issuance per day.  A sample is *)
(* [ts |-> seconds, issuance |-> TAO]; a mean is held as sum and count.     *)

SecondsPerDay == TicksPerDay * TickSeconds

\* compute_per_day_deltas_from_history from the pair (hist[i], hist[i+1]) on:
\* pairs whose timestamps do not increase are skipped
RECURSIVE PerDayDeltasFrom(_, _)
PerDayDeltasFrom(hist, i) ==
    IF i >= Len(hist) THEN << >>
    ELSE LET dt == hist[i + 1].ts - hist[i].ts
             delta == hist[i + 1].issuance - hist[i].issuance
             per_day == (delta * SecondsPerDay) \div dt
         IN IF dt <= 0 THEN PerDayDeltasFrom(hist, i + 1)
            ELSE << per_day >> \o PerDayDeltasFrom(hist, i + 1)

compute_per_day_deltas_from_history(hist) == PerDayDeltasFrom(hist, 1)

\* sorted(values)
RECURSIVE InsertAscending(_, _)
InsertAscending(sorted, x) ==
    IF sorted = << >> THEN << x >>
    ELSE IF sorted[Len(sorted)] <= x THEN Append(sorted, x)
    ELSE Append(InsertAscending(SubSeq(sorted, 1, Len(sorted) - 1), x), sorted[Len(sorted)])

RECURSIVE SortedAscending(_)
SortedAscending(values) ==
    IF values = << >> THEN << >>
    ELSE InsertAscending(SortedAscending(SubSeq(values, 1, Len(values) - 1)),
                         values[Len(values)])

\* robust_average: with more than 3 values the mean leaves out the
\* max(1, int(n * 0.1)) smallest and as many of the largest
robust_average(values) ==
    IF values = << >> THEN None
    ELSE LET arr == SortedAscending(values)
             n == Len(arr)
             trim == IF n > 3 THEN Max(1, n \div 10) ELSE 0
             trimmed == IF trim > 0 /\ n > 2 * trim THEN SubSeq(arr, trim + 1, n - trim)
                        ELSE arr
         IN [sum |-> SumSeq(trimmed), count |-> Len(trimmed)]

\* [d for i, d in enumerate(per_day_deltas) if hist[i + 1]['ts'] >= cutoff]:
\* the i-th delta is tested against the (i+1)-th sample of hist
RECURSIVE RecentFrom(_, _, _, _)
RecentFrom(per_day_deltas, hist, i, cutoff) ==
    IF i > Len(per_day_deltas) THEN << >>
    ELSE IF hist[i + 1].ts >= cutoff
         THEN << per_day_deltas[i] >> \o RecentFrom(per_day_deltas, hist, i + 1, cutoff)
         ELSE RecentFrom(per_day_deltas, hist, i + 1, cutoff)

avg_for_days(hist, days, now_ts) ==
    IF Len(hist) < 2 THEN None
    ELSE LET cutoff == now_ts - days * SecondsPerDay
             per_day_deltas == compute_per_day_deltas_from_history(hist)
             selected == RecentFrom(per_day_deltas, hist, 1, cutoff)
             recent == IF selected = << >>
                       THEN LastN(per_day_deltas, Min(Len(per_day_deltas), days))
                       ELSE selected
         IN robust_average(recent)

-----------------------------------------------------------------------------
(* The core on a History: one extractor with its extract_features calls,   *)
(* or one call of the harness                                              *)

\* Histories of the specification: snapshots at three instants, half an hour
\* and a day apart, ranked by value; two snapshots break the data contract
Instants == {0, TicksPerDay, TicksPerDay + 1}

EntryLists ==
    { << Entry(1, "a", 40), Entry(2, "b", 10) >>,
      << Entry(1, "b", 40), Entry(2, "a", 10) >>,
      << Entry(1, "a", 10) >>,
      << Entry(1, "b", 0), Entry(2, "a", 0) >> }

Malformed ==
    { ("_timestamp" :> TicksPerDay),
      ("entries" :> << Entry(1, "a", 40), Entry(2, "b", 10) >>) }

Snapshots == { Snapshot(t, e) : t \in Instants, e \in EntryLists } \cup Malformed

RECURSIVE SeqsUpTo(_, _)
SeqsUpTo(S, n) ==
    IF n = 0 THEN { <<>> }
    ELSE LET shorter == SeqsUpTo(S, n - 1)
         IN shorter \cup { Append(s, x) : s \in { t \in shorter : Len(t) = n - 1 }, x \in S }

LookbackChoices == {1, 28}
TimeChoices == {0, TicksPerDay - 1, TicksPerDay, TicksPerDay + 1, TicksPerDay + 2}

\* Values of the variables a specification does not use
IdleAux ==
    /\ env = None
    /\ sweep = None
    /\ kv = None
    /\ args = None

Idle ==
    /\ IdleAux
    /\ features_by_subnet = <<>>
    /\ model = None
    /\ target_date = 0
    /\ probs = None
    /\ tests = <<>>
    /\ brier = None

Init ==
    /\ history \in SeqsUpTo(Snapshots, MaxLen)
    /\ now = 2 * TicksPerDay
    /\ extractor = None
    /\ call = None
    /\ Idle

\* A constructor that sorts the caller's list in place (self.history.sort(...))
Construct_SortsInPlace(lookback_days) ==
    /\ extractor = None
    /\ call = None
    /\ extractor' = NewExtractor(history, lookback_days, now)
    /\ history' = IF FirstWithoutTimestamp(history, 1) = 0
                  THEN SortedByTimestamp(history) ELSE history
    /\ UNCHANGED <<now, call, features_by_subnet, model, target_date,
                   probs, tests, brier>>
    /\ UNCHANGED aux

\* extractor = SubnetFeatureExtractor(history, lookback_days)
Construct(lookback_days) ==
    /\ extractor = None
    /\ call = None
    /\ extractor' = NewExtractor(history, lookback_days, now)
    /\ UNCHANGED <<history, now, call, features_by_subnet, model, target_date,
                   probs, tests, brier>>
    /\ UNCHANGED aux

\* extractor.extract_features(netuid)
ExtractFeatures(netuid) ==
    /\ IsExtractor(extractor)
    /\ call' = [op |-> "extract_features", netuid |-> netuid,
                outcome |-> Returned(extract_features(extractor, netuid))]
    /\ UNCHANGED <<history, now, extractor, features_by_subnet, model,
                   target_date, probs, tests, brier>>
    /\ UNCHANGED aux

\* find_snapshot_at_time(history, target_time)
FindSnapshot(target_time) ==
    /\ extractor = None
    /\ call = None
    /\ call' = [op |-> "find_snapshot_at_time", target_time |-> target_time,
                outcome |-> find_snapshot_at_time(history, target_time)]
    /\ UNCHANGED <<history, now, extractor, features_by_subnet, model,
                   target_date, probs, tests, brier>>
    /\ UNCHANGED aux

\* run_backtest(history, test_date, prediction_window_days)
RunBacktest(test_date, prediction_window_days) ==
    /\ extractor = None
    /\ call = None
    /\ call' = [op |-> "run_backtest", test_date |-> test_date,
                prediction_window_days |-> prediction_window_days,
                outcome |-> run_backtest(history, test_date, prediction_window_days)]
    /\ UNCHANGED <<history, now, extractor, features_by_subnet, model,
                   target_date, probs, tests, brier>>
    /\ UNCHANGED aux

\* The history loading of the backtest driver
DriverLoad ==
    /\ extractor = None
    /\ call = None
    /\ call' = [op |-> "main", outcome |-> LoadHistory(history)]
    /\ UNCHANGED <<history, now, extractor, features_by_subnet, model,
                   target_date, probs, tests, brier>>
    /\ UNCHANGED aux

Next ==
    \/ \E lookback_days \in LookbackChoices : Construct(lookback_days)
    \/ \E netuid \in Netuids : ExtractFeatures(netuid)
    \/ \E target_time \in TimeChoices : FindSnapshot(target_time)
    \/ \E test_date \in TimeChoices, w \in Range(BACKTEST_PREDICTION_WINDOWS) : RunBacktest(test_date, w)
    \/ DriverLoad

Spec == Init /\ [][Next]_vars

-----------------------------------------------------------------------------
(* calculate_probabilities on feature maps *)

\* Feature vectors: a vector with current_rank alone (every other field at
\* its default), a strong one whose score exceeds 1 before the clamp, a weak one
SparseFeatures(rank) == [current_rank |-> rank]

StrongFeatures(rank) ==
    [current_rank |-> rank, rank1_frequency |-> One, rank_delta_7d |-> 4,
     rank_delta_recent |-> 2, top3_tenure |-> One,
     emission_share_current |-> 100 * 500, emission_gap_normalized |-> One,
     emission_pct_change_7d |-> 300, emission_momentum |-> 20,
     gap_closing_feasibility |-> One, share_stability |-> One,
     rank_stability |-> One]

WeakFeatures(rank) ==
    [current_rank |-> rank, rank1_frequency |-> 0, rank_delta_7d |-> -4,
     rank_delta_recent |-> -2, top3_tenure |-> 0,
     emission_share_current |-> 55, emission_gap_normalized |-> 0,
     emission_pct_change_7d |-> -75, emission_momentum |-> -375,
     gap_closing_feasibility |-> 0, share_stability |-> 40,
     rank_stability |-> 66]

RankChoices == {1, 5, 12}

FeatureChoices ==
    UNION { {SparseFeatures(r), StrongFeatures(r), WeakFeatures(r)} : r \in RankChoices }

\* Maps from at most MaxSubnets subnet ids to a feature vector or None
FeatureMaps ==
    UNION { [S -> FeatureChoices \cup {None}] : S \in SUBSET (1..MaxSubnets) }

\* A weight table with every weight 0: every composite score is 0
ZERO_WEIGHTS == [key \in DOMAIN FEATURE_WEIGHTS |-> 0]

\* Target dates: in the past, today, 1, 15, 30 and 45 days ahead
TargetChoices == { d * TicksPerDay : d \in {-3, 0, 1, 15, 30, 45} }

IdleCore ==
    /\ IdleAux
    /\ history = <<>>
    /\ extractor = None
    /\ call = None
    /\ tests = <<>>
    /\ brier = None

\* The model as main constructs it
InitModel ==
    /\ features_by_subnet \in FeatureMaps
    /\ model = NewModel(FEATURE_WEIGHTS, POSITION_PENALTIES)
    /\ target_date \in TargetChoices
    /\ now = 0
    /\ probs = None
    /\ IdleCore

\* The model with the production weight table or a substituted one
InitAnyWeights ==
    /\ features_by_subnet \in FeatureMaps
    /\ model \in { NewModel(w, POSITION_PENALTIES) : w \in {FEATURE_WEIGHTS, ZERO_WEIGHTS} }
    /\ target_date \in TargetChoices
    /\ now = 0
    /\ probs = None
    /\ IdleCore

\* probs = model.calculate_probabilities(features_by_subnet, target_date)
CalculateProbabilities ==
    /\ probs = None
    /\ probs' = calculate_probabilities(model, features_by_subnet, target_date, now)
    /\ UNCHANGED <<history, now, extractor, call, features_by_subnet, model,
                   target_date, tests, brier>>
    /\ UNCHANGED aux

NextModel == CalculateProbabilities

SpecModel == InitModel /\ [][NextModel]_vars

SpecAnyWeights == InitAnyWeights /\ [][NextModel]_vars

-----------------------------------------------------------------------------
(* run_backtest at the minimum-data gate: Histories of hourly snapshots *)

RECURSIVE Reverse(_)
Reverse(s) == IF s = <<>> THEN <<>> ELSE Append(Reverse(Tail(s)), Head(s))

HourlyHistory(n) ==
    [i \in 1..n |-> Snapshot((i - 1) * TicksPerHour,
                             << Entry(1, "a", 40), Entry(2, "b", 10) >>)]

\* Hourly snapshots of which the first two alone list a subnet: no subnet is
\* observed three times
SparseHourlyHistory(n) ==
    [i \in 1..n |-> Snapshot((i - 1) * TicksPerHour,
                             IF i <= 2 THEN << Entry(1, "a", 40) >> ELSE << >>)]

\* Hourly snapshots of which the last one lists another subnet alone: the
\* subnets seen before have vanished from the ranking
VanishedHistory(n) ==
    [i \in 1..n |-> Snapshot((i - 1) * TicksPerHour,
                             IF i < n THEN << Entry(1, "a", 40), Entry(2, "b", 10) >>
                                      ELSE << Entry(1, "c", 40) >>)]

GateTimes == { k * TicksPerHour : k \in 0..MaxSnapshots }

InitGate ==
    /\ history \in { HourlyHistory(n) : n \in 0..MaxSnapshots }
                   \cup { Reverse(HourlyHistory(n)) : n \in 0..MaxSnapshots }
                   \cup { SparseHourlyHistory(n) : n \in 0..MaxSnapshots }
                   \cup { VanishedHistory(n) : n \in 0..MaxSnapshots }
    /\ now = MaxSnapshots * TicksPerHour
    /\ extractor = None
    /\ call = None
    /\ Idle

NextGate ==
    \E test_date \in GateTimes, w \in Range(BACKTEST_PREDICTION_WINDOWS) :
        RunBacktest(test_date, w)

SpecGate == InitGate /\ [][NextGate]_vars

-----------------------------------------------------------------------------
(* calculate_brier_score on lists of backtest results *)

ResultChoices ==
    { SuccessResult(p, c) : p \in {0, One \div 2, One}, c \in BOOLEAN }
    \cup { FailedResult("insufficient_data", 47), FailedResult("no_features", 0) }

InitBrier ==
    /\ IdleAux
    /\ tests \in SeqsUpTo(ResultChoices, MaxTests)
    /\ brier = None
    /\ history = <<>>
    /\ now = 0
    /\ extractor = None
    /\ call = None
    /\ features_by_subnet = <<>>
    /\ model = None
    /\ target_date = 0
    /\ probs = None

\* brier = calculate_brier_score(tests)
CalculateBrier ==
    /\ brier = None
    /\ brier' = calculate_brier_score(tests)
    /\ UNCHANGED <<history, now, extractor, call, features_by_subnet, model,
                   target_date, probs, tests>>
    /\ UNCHANGED aux

NextBrier == CalculateBrier

SpecBrier == InitBrier /\ [][NextBrier]_vars

-----------------------------------------------------------------------------
(* The sweep of the backtest driver: main of backtest_predictions.py from    *)
(* the loaded History to the summary                                        *)

\* Two snapshots a span apart; 48 hourly snapshots and one a span later
SpanHistory(span) ==
    << Snapshot(0, << Entry(1, "a", 40), Entry(2, "b", 10) >>),
       Snapshot(span, << Entry(1, "b", 40), Entry(2, "a", 10) >>) >>

DenseSpanHistory(span) ==
    Append(HourlyHistory(MaxSnapshots - 1),
           Snapshot(span, << Entry(1, "b", 40), Entry(2, "a", 10) >>))

SpanChoices ==
    { 10 * TicksPerDay, 35 * TicksPerDay, 35 * TicksPerDay + 1, 36 * TicksPerDay,
      42 * TicksPerDay, 70 * TicksPerDay, 200 * TicksPerDay }

SweepHistories ==
    UNION { { SpanHistory(span), Reverse(SpanHistory(span)), DenseSpanHistory(span) } :
            span \in SpanChoices }
    \cup { << >>, << ("entries" :> << Entry(1, "a", 40) >>) >> }

BacktestDaysChoices == {-7, 0, 1, 14}

\* The driver's locals; dates lists the test dates handed to run_backtest in
\* the current window, in call order
SweepState(pc, oldest, newest) ==
    [pc |-> pc, oldest |-> oldest, newest |-> newest, next |-> 1,
     window_days |-> 0, test_start |-> 0, test_end |-> 0,
     current_test_date |-> 0, test_count |-> 0, dates |-> << >>]

InitSweep ==
    /\ history \in SweepHistories
    /\ env \in { [BACKTEST_DAYS |-> d] : d \in BacktestDaysChoices }
    /\ sweep = SweepState("load", 0, 0)
    /\ tests = << >>
    /\ brier = None
    /\ now = 0
    /\ extractor = None
    /\ call = None
    /\ features_by_subnet = << >>
    /\ model = None
    /\ target_date = 0
    /\ probs = None
    /\ kv = None
    /\ args = None

\* Loading: the History is parsed and sorted, or the process ends
SweepLoad ==
    /\ sweep.pc = "load"
    /\ LET loaded == LoadHistory(history)
       IN IF IsRaised(loaded)
          THEN /\ sweep' = SweepState("raised", 0, 0)
               /\ UNCHANGED history
          ELSE /\ history' = loaded.value.history
               /\ sweep' = SweepState("for", loaded.value.oldest, loaded.value.newest)
    /\ UNCHANGED <<now, extractor, call, features_by_subnet, model, target_date,
                   probs, tests, brier, env, kv, args>>

\* for window_days in BACKTEST_PREDICTION_WINDOWS: the head of the loop with
\* the test "if test_start >= test_end: continue"
SweepWindow ==
    /\ sweep.pc = "for"
    /\ sweep.next <= Len(BACKTEST_PREDICTION_WINDOWS)
    /\ LET window_days == BACKTEST_PREDICTION_WINDOWS[sweep.next]
           test_start == TestStart(sweep.oldest)
           test_end == TestEnd(sweep.newest, window_days)
       IN sweep' = IF test_start >= test_end
                   THEN [sweep EXCEPT !.next = @ + 1, !.window_days = window_days,
                                      !.test_start = test_start, !.test_end = test_end,
                                      !.dates = << >>]
                   ELSE [sweep EXCEPT !.pc = "while", !.next = @ + 1,
                                      !.window_days = window_days,
                                      !.test_start = test_start, !.test_end = test_end,
                                      !.current_test_date = test_start,
                                      !.test_count = 0, !.dates = << >>]
    /\ tests' = << >>
    /\ UNCHANGED <<history, now, extractor, call, features_by_subnet, model,
                   target_date, probs, brier, env, kv, args>>

\* One pass of the while loop: run_backtest at current_test_date; an
\* exception of run_backtest is not caught and ends the process
SweepTest ==
    /\ sweep.pc = "while"
    /\ WhileCondition(sweep.current_test_date, sweep.test_end, sweep.test_count)
    /\ LET result == run_backtest(history, sweep.current_test_date, sweep.window_days)
       IN IF IsRaised(result)
          THEN /\ sweep' = [sweep EXCEPT !.pc = "raised",
                                         !.dates = Append(@, sweep.current_test_date)]
               /\ UNCHANGED tests
          ELSE /\ tests' = Append(tests, result.value)
               /\ sweep' = [sweep EXCEPT
                               !.current_test_date = @ + env.BACKTEST_DAYS * TicksPerDay,
                               !.test_count = @ + 1,
                               !.dates = Append(@, sweep.current_test_date)]
    /\ UNCHANGED <<history, now, extractor, call, features_by_subnet, model,
                   target_date, probs, brier, env, kv, args>>

\* The while loop is left: the metrics of the window
SweepWindowEnd ==
    /\ sweep.pc = "while"
    /\ ~WhileCondition(sweep.current_test_date, sweep.test_end, sweep.test_count)
    /\ sweep' = [sweep EXCEPT !.pc = "for"]
    /\ brier' = IF SuccessfulTests(tests) = << >> THEN brier
                ELSE calculate_brier_score(SuccessfulTests(tests))
    /\ UNCHANGED <<history, now, extractor, call, features_by_subnet, model,
                   target_date, probs, tests, env, kv, args>>

\* The for loop is left: the summary
SweepSummary ==
    /\ sweep.pc = "for"
    /\ sweep.next > Len(BACKTEST_PREDICTION_WINDOWS)
    /\ sweep' = [sweep EXCEPT !.pc = "done"]
    /\ UNCHANGED <<history, now, extractor, call, features_by_subnet, model,
                   target_date, probs, tests, brier, env, kv, args>>

NextSweep ==
    \/ SweepLoad
    \/ SweepWindow
    \/ SweepTest
    \/ SweepWindowEnd
    \/ SweepSummary

SpecSweep == InitSweep /\ [][NextSweep]_vars

\* The driver is one sequential process: once the History is loaded it takes
\* the next step of its loops while it has one
SweepStep == SweepWindow \/ SweepTest \/ SweepWindowEnd \/ SweepSummary

SpecSweepFair == SpecSweep /\ WF_vars(SweepStep)

-----------------------------------------------------------------------------
(* The collectors: runs of publish_top_history.py (its top_subnets section) *)
(* and of backfill_subnet_history.py on the stored top_subnets_history;     *)
(* the runs are an hour apart                                               *)

HistoryKey == "top_subnets_history"

\* Responses of /api/top_subnets; None is a failed fetch
ApiSubnetA ==
    ("netuid" :> Num(1)) @@ ("taostats_name" :> Str("alpha"))
        @@ ("estimated_emission_daily" :> Num(40))
ApiSubnetB == ("netuid" :> Num(2)) @@ ("emission" :> Num(10))
ApiSubnetC == ("subnet_name" :> Str("gamma")) @@ ("estimated_emission_daily" :> Str("n/a"))

ApiResponses ==
    { None,
      ("error" :> Str("unavailable")),
      ("top_subnets" :> None),
      ("top_subnets" :> List(<< >>)),
      ("top_subnets" :> List(<< ApiSubnetA >>)),
      ("top_subnets" :> List(<< ApiSubnetB, ApiSubnetA >>)),
      ("top_subnets" :> List(<< ApiSubnetA, ApiSubnetC, ApiSubnetB >>)) }

\* Records of Taostats for the n hours up to t_now: in each hour subnet 1 at
\* 9 TAO, half an hour later subnet 2 at 36 TAO, and a record without netuid
TaoRecord(k, j, t_now) ==
    IF j = 0 THEN ("netuid" :> Num(1)) @@ ("emission" :> Num(1250000))
                      @@ ("timestamp" :> Num(t_now - k * TicksPerHour))
    ELSE IF j = 1 THEN ("netuid" :> Num(2)) @@ ("emission" :> Num(5000000))
                      @@ ("name" :> Str("beta"))
                      @@ ("created_at" :> Num(t_now - k * TicksPerHour + 1))
    ELSE ("emission" :> Num(2500000)) @@ ("timestamp" :> Num(t_now - k * TicksPerHour))

HourlyRecords(n, t_now) ==
    [i \in 1..(3 * n) |-> TaoRecord((i - 1) \div 3, (i - 1) % 3, t_now)]

CurrentSubnets ==
    << ("netuid" :> Num(1)) @@ ("emission" :> Str("n/a")),
       ("name" :> Str("nameless")),
       ("netuid" :> Num(2)) @@ ("emission" :> Num(2500000)) @@ ("name" :> Str("beta")) >>

\* What the two Taostats fetches of a backfill run return; an empty list is
\* a failed fetch as well
BackfillInputs(t_now) ==
    { [history_records |-> << >>, current |-> << >>],
      [history_records |-> << >>, current |-> CurrentSubnets],
      [history_records |-> HourlyRecords(3, t_now), current |-> CurrentSubnets],
      [history_records |-> HourlyRecords(10, t_now), current |-> << >>],
      [history_records |-> HourlyRecords(11, t_now) \o
                           << ("netuid" :> Num(1)) @@ ("timestamp" :> Str("yesterday")) >>,
       current |-> CurrentSubnets] }

\* The instant of the first run, and the stored Histories then: k hourly
\* snapshots up to an hour before
FirstRun == 30 * TicksPerDay

OldHistory(k) ==
    [i \in 1..k |-> Snapshot(FirstRun - (k - i + 1) * TicksPerHour,
                             << Entry(1, "1", 40), Entry(2, "2", 10) >>)]

StoredChoices ==
    { EmptyMap, (HistoryKey :> NotAList) }
    \cup { (HistoryKey :> List(OldHistory(k))) : k \in 0..3 }

InitCollect ==
    /\ kv \in StoredChoices
    /\ env \in { [MAX_HISTORY_ENTRIES |-> m, BACKFILL_DAYS |-> 1,
                   BACKFILL_INTERVAL_HOURS |-> 6] : m \in {3, 672} }
    /\ now = FirstRun
    /\ call = None
    /\ history = << >>
    /\ extractor = None
    /\ sweep = None
    /\ args = None
    /\ features_by_subnet = << >>
    /\ model = None
    /\ target_date = 0
    /\ probs = None
    /\ tests = << >>
    /\ brier = None

\* One run of publish_top_history.py, its section for top_subnets_history
\* (lines 414-436): fetch, process_subnets, append_to_history
PublishRun(data, get_ok, put_ok) ==
    /\ now < FirstRun + MaxRuns * TicksPerHour
    /\ LET entries == IF data = None THEN Returned(<< >>) ELSE process_subnets(data)
           snapshot == Snapshot(now, entries.value)
       IN IF IsRaised(entries)
          THEN /\ call' = [op |-> "publish_top_history", snapshots |-> << >>,
                           outcome |-> entries]
               /\ UNCHANGED kv
          ELSE IF entries.value = << >>
          THEN /\ call' = [op |-> "publish_top_history", snapshots |-> << >>,
                           outcome |-> Returned(FALSE)]
               /\ UNCHANGED kv
          ELSE /\ call' = [op |-> "publish_top_history", snapshots |-> << snapshot >>,
                           outcome |-> Returned(put_ok)]
               /\ kv' = append_to_history(kv, HistoryKey, snapshot,
                                          env.MAX_HISTORY_ENTRIES, get_ok, put_ok)
    /\ now' = now + TicksPerHour
    /\ UNCHANGED <<history, extractor, features_by_subnet, model, target_date,
                   probs, tests, brier, env, sweep, args>>

\* The snapshots a backfill run builds (main, lines 320-363): from the
\* Taostats history, or synthetic ones when that gives fewer than 10
BackfillSnapshots(history_records, current, t_now) ==
    LET grouped == group_by_timestamp(history_records)
        real == SnapshotsFromGroups(grouped, SortedKeys(DOMAIN grouped),
                                    t_now - env.BACKFILL_DAYS * TicksPerDay)
    IN IF Len(real) >= 10 THEN Returned(real)
       ELSE IF current = << >> THEN Raised("SystemExit")
       ELSE LET synthetic == generate_synthetic_history(current, env.BACKFILL_DAYS,
                                 env.BACKFILL_INTERVAL_HOURS, t_now)
            IN IF IsRaised(synthetic) THEN synthetic
               ELSE IF synthetic.value = << >> THEN Raised("SystemExit")
               ELSE synthetic

\* One run of backfill_subnet_history.py
BackfillRun(history_records, current, get_ok, put_ok) ==
    /\ now < FirstRun + MaxRuns * TicksPerHour
    /\ LET snapshots == BackfillSnapshots(history_records, current, now)
           existing == get_from_kv(kv, HistoryKey, get_ok)
       IN IF IsRaised(snapshots)
          THEN /\ call' = [op |-> "backfill_subnet_history", snapshots |-> << >>,
                           outcome |-> snapshots]
               /\ UNCHANGED kv
          ELSE IF existing # None /\ ~IsList(existing)
          THEN /\ call' = [op |-> "backfill_subnet_history",
                           snapshots |-> snapshots.value,
                           outcome |-> Raised("AttributeError")]
               /\ UNCHANGED kv
          ELSE /\ call' = [op |-> "backfill_subnet_history",
                           snapshots |-> snapshots.value,
                           outcome |-> IF put_ok THEN Returned(TRUE)
                                                 ELSE Raised("SystemExit")]
               /\ kv' = put_to_kv(kv, HistoryKey,
                                  MergedHistory(IF existing = None THEN << >>
                                                                   ELSE existing.list,
                                                snapshots.value),
                                  put_ok)
    /\ now' = now + TicksPerHour
    /\ UNCHANGED <<history, extractor, features_by_subnet, model, target_date,
                   probs, tests, brier, env, sweep, args>>

NextCollect ==
    \/ \E data \in ApiResponses, get_ok \in BOOLEAN, put_ok \in BOOLEAN :
           PublishRun(data, get_ok, put_ok)
    \/ \E input \in BackfillInputs(now), get_ok \in BOOLEAN, put_ok \in BOOLEAN :
           BackfillRun(input.history_records, input.current, get_ok, put_ok)

SpecCollect == InitCollect /\ [][NextCollect]_vars

-----------------------------------------------------------------------------
(* Overlapping collector runs: each run of publish_top_history.py and of    *)
(* backfill_subnet_history.py reads top_subnets_history, changes the list   *)
(* it read and writes it back; the steps of the runs interleave             *)

\* A collector run: its script, where it stands, the snapshots it built, the
\* value it read and how it ended
CollectorRun(script, pc, snapshots, loaded, outcome) ==
    [script |-> script, pc |-> pc, snapshots |-> snapshots, loaded |-> loaded,
     outcome |-> outcome]

NotStarted == CollectorRun("", "start", << >>, None, None)

RaceApiResponses ==
    { ("top_subnets" :> List(<< >>)),
      ("top_subnets" :> List(<< ApiSubnetB, ApiSubnetA >>)) }

RaceBackfillInputs(t_now) ==
    { [history_records |-> << >>, current |-> << >>],
      [history_records |-> << >>, current |-> CurrentSubnets],
      [history_records |-> HourlyRecords(10, t_now), current |-> << >>] }

InitRace ==
    /\ kv \in StoredChoices
    /\ env \in { [MAX_HISTORY_ENTRIES |-> m, BACKFILL_DAYS |-> 1,
                   BACKFILL_INTERVAL_HOURS |-> 6] : m \in {3, 672} }
    /\ now = FirstRun
    /\ args = [r \in 1..MaxRuns |-> NotStarted]
    /\ call = None
    /\ history = << >>
    /\ extractor = None
    /\ sweep = None
    /\ features_by_subnet = << >>
    /\ model = None
    /\ target_date = 0
    /\ probs = None
    /\ tests = << >>
    /\ brier = None

RaceUnchanged ==
    UNCHANGED <<history, extractor, call, features_by_subnet, model, target_date,
                probs, tests, brier, env, sweep>>

\* publish_top_history.py up to its call of append_to_history: fetch and
\* process_subnets; the snapshot carries the time of the run
PublishBuild(r, data) ==
    /\ args[r].pc = "start"
    /\ LET entries == process_subnets(data)
       IN args' = [args EXCEPT ![r] =
                     IF IsRaised(entries)
                     THEN CollectorRun("publish_top_history", "done", << >>, None, entries)
                     ELSE IF entries.value = << >>
                     THEN CollectorRun("publish_top_history", "done", << >>, None,
                                       Returned(FALSE))
                     ELSE CollectorRun("publish_top_history", "read",
                                       << Snapshot(now, entries.value) >>, None, None)]
    /\ now' = now + 1
    /\ UNCHANGED kv
    /\ RaceUnchanged

\* backfill_subnet_history.py up to "Get existing history and merge"
BackfillBuild(r, history_records, current) ==
    /\ args[r].pc = "start"
    /\ LET snapshots == BackfillSnapshots(history_records, current, now)
       IN args' = [args EXCEPT ![r] =
                     IF IsRaised(snapshots)
                     THEN CollectorRun("backfill_subnet_history", "done", << >>, None,
                                       snapshots)
                     ELSE CollectorRun("backfill_subnet_history", "read",
                                       snapshots.value, None, None)]
    /\ now' = now + 1
    /\ UNCHANGED kv
    /\ RaceUnchanged

\* history = get_from_kv(history_key) of append_to_history,
\* existing = get_from_kv('top_subnets_history') of the backfill; the loop
\* over existing raises on a value that is no list
ReadHistory(r, get_ok) ==
    /\ args[r].pc = "read"
    /\ LET loaded == get_from_kv(kv, HistoryKey, get_ok)
       IN args' = [args EXCEPT ![r] =
                     IF /\ args[r].script = "backfill_subnet_history"
                        /\ loaded # None /\ ~IsList(loaded)
                     THEN [@ EXCEPT !.pc = "done", !.loaded = loaded,
                                    !.outcome = Raised("AttributeError")]
                     ELSE [@ EXCEPT !.pc = "write", !.loaded = loaded]]
    /\ UNCHANGED <<now, kv>>
    /\ RaceUnchanged

\* The list a run stores: what it read with its snapshots appended or merged
ModifiedHistory(run, max_history_entries) ==
    IF run.script = "publish_top_history"
    THEN AppendedHistory(run.loaded, run.snapshots[1], max_history_entries)
    ELSE MergedHistory(IF run.loaded = None THEN << >> ELSE run.loaded.list,
                       run.snapshots)

\* put_to_kv of the changed list, and what the run reports
WriteHistory(r, put_ok) ==
    /\ args[r].pc = "write"
    /\ kv' = put_to_kv(kv, HistoryKey, ModifiedHistory(args[r], env.MAX_HISTORY_ENTRIES),
                       put_ok)
    /\ args' = [args EXCEPT ![r] =
                  [@ EXCEPT !.pc = "done",
                            !.outcome = IF put_ok THEN Returned(TRUE)
                                        ELSE IF args[r].script = "publish_top_history"
                                        THEN Returned(FALSE)
                                        ELSE Raised("SystemExit")]]
    /\ UNCHANGED now
    /\ RaceUnchanged

NextRace ==
    \E r \in 1..MaxRuns :
        \/ \E data \in RaceApiResponses : PublishBuild(r, data)
        \/ \E input \in RaceBackfillInputs(now) :
               BackfillBuild(r, input.history_records, input.current)
        \/ \E get_ok \in BOOLEAN : ReadHistory(r, get_ok)
        \/ \E put_ok \in BOOLEAN : WriteHistory(r, put_ok)

SpecRace == InitRace /\ [][NextRace]_vars

-----------------------------------------------------------------------------
(* The metrics helpers on issuance histories *)

\* Samples a day apart, also with equal and with decreasing timestamps
Samples ==
    { [ts |-> d * SecondsPerDay, issuance |-> v] : d \in 0..2, v \in {0, 200, 1000} }

InitMetrics ==
    /\ args \in { [hist |-> h, days |-> d, now_ts |-> 2 * SecondsPerDay] :
                   h \in SeqsUpTo(Samples, MaxSamples), d \in {1, 7} }
    /\ call = None
    /\ history = << >>
    /\ now = 0
    /\ extractor = None
    /\ env = None
    /\ sweep = None
    /\ kv = None
    /\ features_by_subnet = << >>
    /\ model = None
    /\ target_date = 0
    /\ probs = None
    /\ tests = << >>
    /\ brier = None

\* compute_per_day_deltas_from_history(hist)
ComputePerDayDeltas ==
    /\ call = None
    /\ call' = [op |-> "compute_per_day_deltas_from_history",
                outcome |-> Returned(compute_per_day_deltas_from_history(args.hist))]
    /\ UNCHANGED <<history, now, extractor, features_by_subnet, model, target_date,
                   probs, tests, brier, env, sweep, kv, args>>

\* avg_for_days(hist, days, now_ts)
AvgForDays ==
    /\ call = None
    /\ call' = [op |-> "avg_for_days",
                outcome |-> Returned(avg_for_days(args.hist, args.days, args.now_ts))]
    /\ UNCHANGED <<history, now, extractor, features_by_subnet, model, target_date,
                   probs, tests, brier, env, sweep, kv, args>>

NextMetrics == ComputePerDayDeltas \/ AvgForDays

SpecMetrics == InitMetrics /\ [][NextMetrics]_vars

-----------------------------------------------------------------------------
(* extract_features on Histories of one subnet that span more than a week *)

\* Instants of day 0 (its start, 30 minutes and 23.5 hours later), the start
\* of day 1 and the start of day 8
FeatureInstants == {0, 1, TicksPerDay - 1, TicksPerDay, 8 * TicksPerDay}

\* Snapshots that list subnet a: at rank 1, at rank 2, or at rank 4 with no emission
FeatureSnapshots ==
    { Snapshot(t, << Entry(e[1], "a", e[2]) >>) :
        t \in FeatureInstants, e \in { <<1, 40>>, <<2, 10>>, <<4, 0>> } }

\* Histories of at most n snapshots of S in time order
RECURSIVE TimeOrdered(_, _)
TimeOrdered(S, n) ==
    IF n = 0 THEN { << >> }
    ELSE LET shorter == TimeOrdered(S, n - 1)
             longest == { t \in shorter : Len(t) = n - 1 }
             fits(h, x) == h = << >> \/ h[Len(h)]["_timestamp"] <= x["_timestamp"]
         IN shorter \cup
            { Append(p[1], p[2]) : p \in { q \in longest \X S : fits(q[1], q[2]) } }

\* n daily snapshots with subnet a at rank 1 and a second snapshot on day 0
TenureHistory(n) ==
    << Snapshot(0, << Entry(1, "a", 40) >>), Snapshot(1, << Entry(1, "a", 40) >>) >>
    \o [i \in 1..(n - 1) |-> Snapshot(i * TicksPerDay, << Entry(1, "a", 40) >>)]

FeatureHistories ==
    TimeOrdered(FeatureSnapshots, MaxObs)
    \cup { Reverse(h) : h \in TimeOrdered(FeatureSnapshots, MaxObs) }
    \cup { TenureHistory(n) : n \in 13..15 }

FeatureLookbacks == {7, 28}

InitFeatures ==
    /\ history \in FeatureHistories
    /\ now = 30 * TicksPerDay
    /\ extractor = None
    /\ call = None
    /\ Idle

NextFeatures ==
    \/ \E lookback_days \in FeatureLookbacks : Construct(lookback_days)
    \/ ExtractFeatures("a")

SpecFeatures == InitFeatures /\ [][NextFeatures]_vars

-----------------------------------------------------------------------------
(* format_prediction_output on probability items and feature vectors *)

\* int(netuid) of a netuid of one decimal digit
IntOf(netuid) == CHOOSE n \in 0..9 : DigitStrings[n + 1] = netuid

\* One item of probabilities.items(): the probability num / den of netuid
Item(netuid, num, den) == [netuid |-> netuid, num |-> num, den |-> den]

\* floor(num * 10^digits / den) with its remainder, by long division
RECURSIVE ScaledQuotient(_, _, _)
ScaledQuotient(num, den, digits) ==
    IF digits = 0 THEN [q |-> num \div den, r |-> num % den]
    ELSE LET p == ScaledQuotient(num, den, digits - 1)
         IN [q |-> p.q * 10 + (p.r * 10) \div den, r |-> (p.r * 10) % den]

\* round(prob, 4) of prob = num / den, in ten-thousandths
Round4(num, den) ==
    LET p == ScaledQuotient(num, den, 4)
    IN p.q + (IF 2 * p.r >= den THEN 1 ELSE 0)

\* x[1] >= y[1] of two items
AtLeast(x, y) ==
    IF x.den = y.den THEN x.num >= y.num ELSE x.num * y.den >= y.num * x.den

\* sorted(..., key=lambda x: x[1], reverse=True): stable, largest first
RECURSIVE InsertByProbability(_, _)
InsertByProbability(sorted, x) ==
    IF sorted = << >> THEN << x >>
    ELSE IF AtLeast(Head(sorted), x)
         THEN << Head(sorted) >> \o InsertByProbability(Tail(sorted), x)
    ELSE << x >> \o sorted

RECURSIVE SortByProbability(_, _)
SortByProbability(items, sorted) ==
    IF items = << >> THEN sorted
    ELSE SortByProbability(Tail(items), InsertByProbability(sorted, Head(items)))

\* The items in the order of the dict, the sort left out
sorted_predictions_Unsorted(probabilities) == probabilities

sorted_predictions(probabilities) == SortByProbability(probabilities, << >>)

\* The dict appended to predictions for one item whose subnet has features
Prediction(item, feat) ==
    LET rank_delta == Get(feat, "rank_delta_7d", 0)
        emission_change == Get(feat, "emission_pct_change_7d", 0)
        rank_momentum == IF rank_delta > 1 THEN "strong_positive"
                         ELSE IF rank_delta > 0 THEN "positive"
                         ELSE IF rank_delta < -1 THEN "strong_negative"
                         ELSE IF rank_delta < 0 THEN "negative"
                         ELSE "stable"
        emission_trend == IF emission_change > 5 THEN "growing_strong"
                          ELSE IF emission_change > 0 THEN "growing_moderate"
                          ELSE IF emission_change < -5 THEN "declining_strong"
                          ELSE IF emission_change < 0 THEN "declining_moderate"
                          ELSE "stable"
        position_advantage == IF feat.current_rank = 1 THEN "leader"
                              ELSE IF feat.current_rank <= 3 THEN "contender"
                              ELSE IF feat.current_rank <= 5 THEN "challenger"
                              ELSE "underdog"
    IN [netuid |-> IntOf(item.netuid),
        subnet_name |-> Get(feat, "subnet_name", [sn |-> item.netuid]),
        probability |-> Round4(item.num, item.den),
        probability_pct |-> Round4(item.num, item.den),
        current_rank |-> feat.current_rank,
        current_emission_daily |-> Round2(feat.current_emission),
        emission_share_pct |-> Round2(Get(feat, "emission_share_current", 0)),
        trend_indicators |-> [rank_momentum |-> rank_momentum,
                              emission_trend |-> emission_trend,
                              position_advantage |-> position_advantage],
        key_metrics |-> [rank_velocity_7d |-> Round2(rank_delta),
                         emission_change_7d_pct |-> Round2(emission_change),
                         rank_stability |-> Round2(Get(feat, "rank_stability", 0))]]

\* The loop over sorted_predictions: an item without features is skipped
RECURSIVE PredictionsOf(_, _)
PredictionsOf(sorted, features) ==
    IF sorted = << >> THEN << >>
    ELSE LET item == Head(sorted)
             feat == Get(features, item.netuid, None)
             rest == PredictionsOf(Tail(sorted), features)
         IN IF feat = None \/ feat = EmptyMap THEN rest
            ELSE << Prediction(item, feat) >> \o rest

\* predictions[:4] in place of predictions[:5]
top_5_FirstFour(predictions) ==
    [i \in 1..Min(4, Len(predictions)) |->
        [netuid |-> predictions[i].netuid,
         name |-> predictions[i].subnet_name,
         probability |-> predictions[i].probability]]

\* top_5: netuid, name and probability of predictions[:5]
top_5(predictions) ==
    [i \in 1..Min(5, Len(predictions)) |->
        [netuid |-> predictions[i].netuid,
         name |-> predictions[i].subnet_name,
         probability |-> predictions[i].probability]]

\* min(predictions, key=...) and max(predictions, key=...): the first
\* prediction with the least, the greatest key; keys[i] is the key of
\* predictions[i]
FirstLeast(predictions, keys) ==
    predictions[CHOOSE i \in DOMAIN predictions :
                   /\ \A j \in DOMAIN predictions : keys[i] <= keys[j]
                   /\ \A j \in 1..(i - 1) : keys[j] > keys[i]]

market_insights(predictions) ==
    LET velocity == [i \in DOMAIN predictions |-> predictions[i].key_metrics.rank_velocity_7d]
        squared == [i \in DOMAIN predictions |-> velocity[i] * velocity[i]]
        falling == [i \in DOMAIN predictions |-> -velocity[i]]
    IN IF predictions = << >> THEN EmptyMap
       ELSE [most_stable |-> FirstLeast(predictions, squared).netuid,
             fastest_rising |-> FirstLeast(predictions, falling).netuid]

\* confidence of the number of snapshots analysed
Confidence(snapshots_count) ==
    IF snapshots_count >= 168 THEN "high"
    ELSE IF snapshots_count >= 72 THEN "medium"
    ELSE "low"

\* format_prediction_output; probabilities is the sequence of the dict's
\* items, target_date is held as the instant its ISO text denotes
format_prediction_output(probabilities, features, target, metadata, lookback_days, t_now) ==
    LET predictions == PredictionsOf(sorted_predictions(probabilities), features)
        snapshots_count == Get(metadata, "snapshots_count", 0)
    IN [target_date |-> target,
        days_ahead |-> TimedeltaDays(target - t_now),
        confidence |-> Confidence(snapshots_count),
        data_quality |->
            [snapshots_analyzed |-> snapshots_count,
             lookback_days |-> lookback_days,
             date_range |-> [from |-> Get(metadata, "oldest_timestamp", ""),
                             to |-> Get(metadata, "newest_timestamp", "")]],
        predictions |-> predictions,
        top_5_contenders |-> top_5(predictions),
        market_insights |-> market_insights(predictions)]

\* The feature vector of the subnet at rank k: the ranks run through every
\* position_advantage, the deltas through every trend indicator
FormatFeatures(k) ==
    [subnet_id |-> DigitStrings[k + 1],
     subnet_name |-> [sn |-> DigitStrings[k + 1]],
     current_rank |-> k,
     current_emission |-> 10 * (MaxPredictions + 1 - k),
     rank_delta_7d |-> (k % 5) - 2,
     rank_delta_recent |-> 0,
     emission_pct_change_7d |-> << -75, -3, 0, 3, 300 >>[(k % 5) + 1],
     emission_share_current |-> MaxPredictions + 1 - k,
     rank_stability |-> One \div 2]

\* Probability items of the subnets 1..n, in ascending or descending order of
\* netuid, each with weight 1 or 2 of the total
FormatItems ==
    UNION { UNION { { [i \in 1..n |-> Item(DigitStrings[i + 1], w[i], Max(1, SumOver(w, 1..n)))],
                      [i \in 1..n |-> Item(DigitStrings[n + 2 - i], w[n + 1 - i],
                                           Max(1, SumOver(w, 1..n)))] } :
                    w \in [1..n -> {1, 2}] } :
            n \in 0..MaxPredictions }

\* Feature maps of the subnets 1..n with at most one of them left out
FormatFeatureMaps(n) ==
    { [id \in { DigitStrings[k + 1] : k \in (1..n) \ absent } |-> FormatFeatures(IntOf(id))] :
        absent \in { S \in SUBSET (1..n) : Cardinality(S) <= 1 } }

InitFormat ==
    /\ probs \in { List(items) : items \in FormatItems }
    /\ features_by_subnet \in FormatFeatureMaps(Len(probs.list))
    /\ args \in { [snapshots_count |-> c, oldest_timestamp |-> 0,
                   newest_timestamp |-> TicksPerDay] : c \in {71, 72, 168} }
    /\ env = [LOOKBACK_DAYS |-> 28]
    /\ now = TicksPerDay + 1
    /\ target_date \in { now + 30 * TicksPerDay, 0 }
    /\ call = None
    /\ history = << >>
    /\ extractor = None
    /\ model = None
    /\ sweep = None
    /\ kv = None
    /\ tests = << >>
    /\ brier = None

\* formatted = format_prediction_output(probabilities, features, target_date,
\* history_metadata)
FormatPredictionOutput ==
    /\ call = None
    /\ call' = [op |-> "format_prediction_output",
                outcome |-> Returned(format_prediction_output(
                                probs.list, features_by_subnet, target_date, args,
                                env.LOOKBACK_DAYS, now))]
    /\ UNCHANGED <<history, now, extractor, features_by_subnet, model,
                   target_date, probs, tests, brier>>
    /\ UNCHANGED aux

NextFormat == FormatPredictionOutput

SpecFormat == InitFormat /\ [][NextFormat]_vars

-----------------------------------------------------------------------------
(* predict_subnet_rankings.py main: one prediction run on the stored History *)

DEFAULT_TARGET_DAYS_AHEAD == 30

PredictionsKey == "subnet_predictions"

\* sys.exit(code)
Exit(code) == [exit |-> code]

\* features of main: the feature vectors of the indexed subnets that have one
FeaturesOf(ex) ==
    [k \in { id \in Range(get_all_subnet_ids(ex)) : extract_features(ex, id) # None }
        |-> extract_features(ex, k)]

\* output of main for the default target date; each prediction is held as
\* the probability map it is formatted from
PredictionOutput(h, p, target, lookback_days, min_data_points) ==
    [predictions_by_date |->
        << [target_date |-> target,
            predictions |-> p,
            history |-> [snapshots_count |-> Len(h),
                         oldest_timestamp |-> h[1]["_timestamp"],
                         newest_timestamp |-> h[Len(h)]["_timestamp"]]] >>,
     configuration |-> [lookback_days |-> lookback_days,
                        min_data_points |-> min_data_points]]

\* Stored snapshots of the short Histories, one of them without timestamp
PredictSnapshots ==
    { Snapshot(t, << Entry(1, "a", 40), Entry(2, "b", 10) >>) : t \in Instants }
    \cup { ("entries" :> << Entry(1, "a", 40), Entry(2, "b", 10) >>) }

\* n snapshots two days apart, oldest first
TwoDailyHistory(n) ==
    [i \in 1..n |-> Snapshot((i - 1) * 2 * TicksPerDay,
                             << Entry(1, "a", 40), Entry(2, "b", 10) >>)]

\* The same snapshots with the newest one stored first
NewestFirst(h) == IF h = << >> THEN h ELSE << h[Len(h)] >> \o SubSeq(h, 1, Len(h) - 1)

\* What the store holds: nothing, a value that is no list, short Histories
\* in every order, and Histories around the default MIN_DATA_POINTS in time
\* order and out of it
PredictStored ==
    { EmptyMap, (HistoryKey :> NotAList) }
    \cup { (HistoryKey :> List(h)) : h \in SeqsUpTo(PredictSnapshots, MaxLen) }
    \cup { (HistoryKey :> List(TwoDailyHistory(n))) : n \in {MaxSnapshots - 2, MaxSnapshots} }
    \cup { (HistoryKey :> List(NewestFirst(TwoDailyHistory(MaxSnapshots)))) }

InitPredict ==
    /\ kv \in PredictStored
    /\ env \in { [MIN_DATA_POINTS |-> m, LOOKBACK_DAYS |-> d] :
                  m \in {2, 48}, d \in LookbackChoices }
    /\ now = 2 * MaxSnapshots * TicksPerDay
    /\ call = None
    /\ history = << >>
    /\ extractor = None
    /\ sweep = None
    /\ args = None
    /\ features_by_subnet = << >>
    /\ model = None
    /\ target_date = 0
    /\ probs = None
    /\ tests = << >>
    /\ brier = None

\* main(): load the History, gate on its length, build the extractor on the
\* list as loaded, extract the features, calculate the probabilities for the
\* default target date and store the output
PredictMain(get_ok, put_ok) ==
    /\ call = None
    /\ LET loaded == get_from_kv(kv, HistoryKey, get_ok)
           usable == loaded # None /\ IsList(loaded) /\ loaded.list # << >>
           ex == NewExtractor(loaded.list, env.LOOKBACK_DAYS, now)
           features == FeaturesOf(ex)
           mdl == NewModel(FEATURE_WEIGHTS, POSITION_PENALTIES)
           target == now + DEFAULT_TARGET_DAYS_AHEAD * TicksPerDay
           p == calculate_probabilities(mdl, features, target, now)
           output == PredictionOutput(loaded.list, p, target, env.LOOKBACK_DAYS,
                                      env.MIN_DATA_POINTS)
       IN IF ~usable
          THEN /\ call' = [op |-> "predict_main", outcome |-> Exit(1)]
               /\ UNCHANGED <<history, extractor, features_by_subnet, model,
                              target_date, probs, kv>>
          ELSE IF Len(loaded.list) < env.MIN_DATA_POINTS
          THEN /\ call' = [op |-> "predict_main", outcome |-> Exit(1)]
               /\ history' = loaded.list
               /\ UNCHANGED <<extractor, features_by_subnet, model, target_date,
                              probs, kv>>
          ELSE IF IsRaised(ex)
          THEN /\ call' = [op |-> "predict_main", outcome |-> ex]
               /\ history' = loaded.list
               /\ target_date' = target
               /\ UNCHANGED <<extractor, features_by_subnet, model, probs, kv>>
          ELSE /\ call' = [op |-> "predict_main",
                           outcome |-> Exit(IF put_ok THEN 0 ELSE 1)]
               /\ history' = loaded.list
               /\ target_date' = target
               /\ extractor' = ex
               /\ features_by_subnet' = features
               /\ model' = mdl
               /\ probs' = p
               /\ kv' = put_to_kv(kv, PredictionsKey, output, put_ok)
    /\ UNCHANGED <<now, tests, brier, env, sweep, args>>

NextPredict == \E get_ok \in BOOLEAN, put_ok \in BOOLEAN : PredictMain(get_ok, put_ok)

SpecPredict == InitPredict /\ [][NextPredict]_vars

-----------------------------------------------------------------------------
(* predict_subnet_rankings.py main, step by step: one prediction run from   *)
(* the credentials check to its exit                                        *)

\* One part of PREDICTION_TARGET_DATES: an ISO date with an offset, one
\* without (a naive datetime), or text that is no date
Aware(t) == [instant |-> t, aware |-> TRUE]
Naive(t) == [instant |-> t, aware |-> FALSE]
Invalid == [invalid |-> TRUE]

\* parse_target_dates: the parts that parse, or the default date when
\* the variable is unset or nothing parses
parse_target_dates(date_str, t_now) ==
    LET parsed == SelectSeq(IF date_str = None THEN << >> ELSE date_str.list,
                            LAMBDA ds : ds # Invalid)
    IN IF date_str = None
       THEN << Aware(t_now + DEFAULT_TARGET_DAYS_AHEAD * TicksPerDay) >>
       ELSE IF parsed # << >> THEN parsed
       ELSE << Aware(t_now + 30 * TicksPerDay) >>

\* The history gates of main without the test against MIN_DATA_POINTS
Usable_NoMinimum(loaded, min_data_points) ==
    loaded # None /\ IsList(loaded) /\ loaded.list # << >>

\* The history gates of main: loaded, a list, not empty, long enough
Usable(loaded, min_data_points) ==
    /\ loaded # None /\ IsList(loaded) /\ loaded.list # << >>
    /\ Len(loaded.list) >= min_data_points

\* probabilities.items(): the items in the order of the keys of features
ItemsOf(p, keys) ==
    LET listed == SelectSeq(keys, LAMBDA k : k \in DOMAIN p.num)
    IN [i \in 1..Len(listed) |-> Item(listed[i], p.num[listed[i]], p.den)]

\* history_metadata of main
HistoryMetadata(h) ==
    [snapshots_count |-> Len(h),
     oldest_timestamp |-> h[1]["_timestamp"],
     newest_timestamp |-> h[Len(h)]["_timestamp"]]

\* output of main
RunOutput(all_predictions, t_now, lookback_days, min_data_points) ==
    [generated_at |-> t_now,
     model_version |-> "1.0-statistical",
     predictions_by_date |-> all_predictions,
     configuration |-> [lookback_days |-> lookback_days,
                        min_data_points |-> min_data_points,
                        feature_weights |-> FEATURE_WEIGHTS,
                        position_penalties |-> POSITION_PENALTIES]]

\* The position of a run: where it stands, what it loaded, the target dates,
\* the predictions made so far, the calls of put_to_kv so far and its outcome
Run(pc, loaded, target_dates, all_predictions, writes, outcome) ==
    [op |-> "predict_main", pc |-> pc, loaded |-> loaded,
     target_dates |-> target_dates, all_predictions |-> all_predictions,
     writes |-> writes, outcome |-> outcome]

\* Stored snapshots of the runs: subnets 1 and 2 with their emissions or with
\* none at all, one snapshot without timestamp
RunSnapshots ==
    { Snapshot(t, e) : t \in Instants,
                       e \in { << Entry(1, "1", 40), Entry(2, "2", 10) >>,
                               << Entry(1, "2", 0), Entry(2, "1", 0) >> } }
    \cup { ("entries" :> << Entry(1, "1", 40), Entry(2, "2", 10) >>) }

\* What the store holds: no history, a value that is no list, Histories of
\* up to MaxLen snapshots; with and without predictions of an earlier run
RunStored ==
    LET histories == { EmptyMap, (HistoryKey :> NotAList) }
                     \cup { (HistoryKey :> List(h)) : h \in SeqsUpTo(RunSnapshots, MaxLen) }
    IN histories \cup { s @@ (PredictionsKey :> [stale |-> TRUE]) : s \in histories }

\* PREDICTION_TARGET_DATES: unset, no date at all, one date, two dates around
\* text that is no date, a date without offset
TargetDateTexts ==
    { None, List(<< Invalid >>), List(<< Aware(TicksPerDay) >>),
      List(<< Aware(45 * TicksPerDay), Invalid, Aware(3 * TicksPerDay) >>),
      List(<< Aware(3 * TicksPerDay), Naive(3 * TicksPerDay) >>) }

InitRun ==
    /\ kv \in RunStored
    /\ env \in { [CF_CREDENTIALS |-> c, MIN_DATA_POINTS |-> m, LOOKBACK_DAYS |-> 28,
                  PREDICTION_TARGET_DATES |-> d] :
                  c \in BOOLEAN, m \in {2, MaxLen}, d \in TargetDateTexts }
    /\ now = 2 * TicksPerDay
    /\ call = Run("validate", None, << >>, << >>, 0, None)
    /\ history = << >>
    /\ extractor = None
    /\ sweep = None
    /\ args = None
    /\ features_by_subnet = << >>
    /\ model = None
    /\ target_date = 0
    /\ probs = None
    /\ tests = << >>
    /\ brier = None

\* "1. Validate environment"
RunValidate ==
    /\ call.pc = "validate"
    /\ call' = IF env.CF_CREDENTIALS
               THEN [call EXCEPT !.pc = "fetch"]
               ELSE [call EXCEPT !.pc = "done", !.outcome = Exit(1)]
    /\ UNCHANGED <<history, now, extractor, features_by_subnet, model,
                   target_date, probs, tests, brier>>
    /\ UNCHANGED aux

\* "2. Fetch historical data" with its two gates, "3. Parse target dates"
RunFetch(get_ok) ==
    /\ call.pc = "fetch"
    /\ LET loaded == get_from_kv(kv, HistoryKey, get_ok)
       IN IF Usable(loaded, env.MIN_DATA_POINTS)
          THEN /\ call' = [call EXCEPT !.pc = "extract", !.loaded = loaded,
                              !.target_dates =
                                 parse_target_dates(env.PREDICTION_TARGET_DATES, now)]
               /\ history' = loaded.list
          ELSE /\ call' = [call EXCEPT !.pc = "done", !.loaded = loaded,
                                       !.outcome = Exit(1)]
               /\ UNCHANGED history
    /\ UNCHANGED <<now, extractor, features_by_subnet, model, target_date,
                   probs, tests, brier>>
    /\ UNCHANGED aux

\* "4. Extract features" and the construction of the model
RunExtract ==
    /\ call.pc = "extract"
    /\ LET ex == NewExtractor(history, env.LOOKBACK_DAYS, now)
       IN IF IsRaised(ex)
          THEN /\ call' = [call EXCEPT !.pc = "done", !.outcome = ex]
               /\ UNCHANGED <<extractor, features_by_subnet, model>>
          ELSE /\ call' = [call EXCEPT !.pc = "predict"]
               /\ extractor' = ex
               /\ features_by_subnet' = FeaturesOf(ex)
               /\ model' = NewModel(FEATURE_WEIGHTS, POSITION_PENALTIES)
    /\ UNCHANGED <<history, now, target_date, probs, tests, brier>>
    /\ UNCHANGED aux

\* One round of "5. Calculate predictions for each target date"; a target
\* date without offset cannot be subtracted from the aware current time
RunPredict ==
    /\ call.pc = "predict"
    /\ LET target == call.target_dates[Len(call.all_predictions) + 1]
           p == calculate_probabilities(model, features_by_subnet, target.instant, now)
           formatted == format_prediction_output(
                            ItemsOf(p, get_all_subnet_ids(extractor)),
                            features_by_subnet, target.instant,
                            HistoryMetadata(history), env.LOOKBACK_DAYS, now)
       IN IF ~target.aware
          THEN /\ call' = [call EXCEPT !.pc = "done", !.outcome = Raised("TypeError")]
               /\ UNCHANGED <<target_date, probs>>
          ELSE /\ call' = [call EXCEPT
                              !.all_predictions = Append(@, formatted),
                              !.pc = IF Len(call.all_predictions) + 1 = Len(call.target_dates)
                                     THEN "store" ELSE "predict"]
               /\ target_date' = target.instant
               /\ probs' = p
    /\ UNCHANGED <<history, now, extractor, features_by_subnet, model, tests, brier>>
    /\ UNCHANGED aux

\* "6. Store to KV" and the exit
RunStore(put_ok) ==
    /\ call.pc = "store"
    /\ kv' = put_to_kv(kv, PredictionsKey,
                       RunOutput(call.all_predictions, now, env.LOOKBACK_DAYS,
                                 env.MIN_DATA_POINTS),
                       put_ok)
    /\ call' = [call EXCEPT !.pc = "done", !.writes = @ + 1,
                            !.outcome = Exit(IF put_ok THEN 0 ELSE 1)]
    /\ UNCHANGED <<history, now, extractor, features_by_subnet, model,
                   target_date, probs, tests, brier, env, sweep, args>>

NextRun ==
    \/ RunValidate
    \/ \E get_ok \in BOOLEAN : RunFetch(get_ok)
    \/ RunExtract
    \/ RunPredict
    \/ \E put_ok \in BOOLEAN : RunStore(put_ok)

SpecRun == InitRun /\ [][NextRun]_vars

-----------------------------------------------------------------------------
(* services/metrics/main.py: concurrent requests of GET /metrics.  The      *)
(* clock of this specification counts seconds; gather_metrics takes time    *)
(* and either returns the metrics or raises (bt.subtensor fails to connect) *)

\* _cache = {"data": None, "ts": 0.0}
EmptyCache == [data |-> None, ts |-> 0]

\* What gather_metrics returns when it reads the chain at time t
Metrics(t) == [blockHeight |-> t, emission |-> 7200, source |-> "bittensor-sdk"]

\* The position of one request: before it arrives, waiting for _lock,
\* inside gather_metrics, or done; the time.time() it read on arrival;
\* whether it called gather_metrics; its response
Request(pc, arrived, gathered, response) ==
    [pc |-> pc, arrived |-> arrived, gathered |-> gathered, response |-> response]

\* A lock that any thread may enter at any time
Acquirable_Always(lock) == TRUE

\* _lock can be acquired: no request holds it
Acquirable(lock) == lock = 0

\* _cache["data"] and now - _cache["ts"] < CACHE_TTL
Fresh(cache, t, cache_ttl) == cache.data # None /\ t - cache.ts < cache_ttl

InitService ==
    /\ args = [cache |-> EmptyCache, lock |-> 0,
               requests |-> [r \in 1..MaxRequests |-> Request("idle", 0, FALSE, None)]]
    /\ env \in { [CACHE_TTL |-> ttl, NETWORK |-> "finney"] : ttl \in {1, 2} }
    /\ now = 0
    /\ call = None
    /\ history = << >>
    /\ extractor = None
    /\ sweep = None
    /\ kv = None
    /\ features_by_subnet = << >>
    /\ model = None
    /\ target_date = 0
    /\ probs = None
    /\ tests = << >>
    /\ brier = None

ServiceUnchanged ==
    UNCHANGED <<history, extractor, call, features_by_subnet, model, target_date,
                probs, tests, brier, env, sweep, kv>>

\* A second passes
Tick ==
    /\ now < MaxClock
    /\ now' = now + 1
    /\ UNCHANGED args
    /\ ServiceUnchanged

\* metrics(): now = time.time(), then the request waits for _lock
Arrive(r) ==
    /\ args.requests[r].pc = "idle"
    /\ args' = [args EXCEPT !.requests[r] = Request("waiting", now, FALSE, None)]
    /\ UNCHANGED now
    /\ ServiceUnchanged

\* with _lock: a fresh cache is returned and the lock released; otherwise the
\* request calls gather_metrics while it holds the lock
Enter(r) ==
    /\ args.requests[r].pc = "waiting"
    /\ Acquirable(args.lock)
    /\ args' = IF Fresh(args.cache, args.requests[r].arrived, env.CACHE_TTL)
               THEN [args EXCEPT !.requests[r].pc = "done",
                                 !.requests[r].response = Returned(args.cache.data)]
               ELSE [args EXCEPT !.lock = r,
                                 !.requests[r].pc = "gathering",
                                 !.requests[r].gathered = TRUE]
    /\ UNCHANGED now
    /\ ServiceUnchanged

\* gather_metrics ends: its data is cached under the time the request
\* arrived and returned, or its exception leaves the cache as it was; the
\* lock is released either way
Gathered(r, ok) ==
    /\ args.requests[r].pc = "gathering"
    /\ args' = IF ok
               THEN [args EXCEPT !.cache = [data |-> Metrics(now),
                                            ts |-> args.requests[r].arrived],
                                 !.lock = 0,
                                 !.requests[r].pc = "done",
                                 !.requests[r].response = Returned(Metrics(now))]
               ELSE [args EXCEPT !.lock = 0,
                                 !.requests[r].pc = "done",
                                 !.requests[r].response = Raised("Exception")]
    /\ UNCHANGED now
    /\ ServiceUnchanged

NextService ==
    \/ Tick
    \/ \E r \in 1..MaxRequests :
          \/ Arrive(r)
          \/ Enter(r)
          \/ \E ok \in BOOLEAN : Gathered(r, ok)

SpecService == InitService /\ [][NextService]_vars

-----------------------------------------------------------------------------
(* Properties of the core on a History (specification Spec) *)

CallIs(op) == "op" \in DOMAIN call /\ call.op = op

\* The number of observations of a subnet inside the lookback window: entries
\* with that id in snapshots not older than the cutoff
RECURSIVE CountIds(_, _)
CountIds(entries, netuid) ==
    IF entries = <<>> THEN 0
    ELSE (IF Head(entries).id = netuid THEN 1 ELSE 0) + CountIds(Tail(entries), netuid)

RECURSIVE ObservationsInWindow(_, _, _)
ObservationsInWindow(h, cutoff_time, netuid) ==
    IF h = <<>> THEN 0
    ELSE (IF HasEntries(Head(h)) /\ Head(h)["_timestamp"] >= cutoff_time
          THEN CountIds(Head(h)["entries"], netuid) ELSE 0)
         + ObservationsInWindow(Tail(h), cutoff_time, netuid)

WindowStart == history[Len(history)]["_timestamp"] - extractor.lookback_days * TicksPerDay

\* C2: extract_features returns None for a subnet with 0, 1 or 2 observations
\* inside the lookback window and a feature vector for one with 3 or more.
C2_DataSufficiencyGate ==
    CallIs("extract_features") =>
        LET c == ObservationsInWindow(history, WindowStart, call.netuid)
        IN (c < 3) <=> (call.outcome.value = None)

\* C2 witness: a subnet with exactly 3 observations in the window got features.
C2_Witness ==
    /\ CallIs("extract_features")
    /\ ObservationsInWindow(history, WindowStart, call.netuid) = 3
    /\ call.outcome.value # None

\* C3 (as claimed): whenever the subnet's latest in-window observation has
\* rank 1, its gap to the leader is 0 and its normalized gap is 1.0.
C3_LeaderHasNoGap ==
    (CallIs("extract_features") /\ call.outcome.value # None
        /\ call.outcome.value.current_rank = 1)
    => /\ call.outcome.value.emission_gap_to_leader = 0
       /\ call.outcome.value.emission_gap_normalized = One

\* C4: find_snapshot_at_time never returns a snapshot later than the target.
C4_NeverAfterTarget ==
    (CallIs("find_snapshot_at_time") /\ ~IsRaised(call.outcome)
        /\ call.outcome.value # None)
    => call.outcome.value["_timestamp"] <= call.target_time

\* C4 witness: a snapshot was returned although a later snapshot is strictly
\* closer to the target than every snapshot at or before it.
C4_Witness ==
    /\ CallIs("find_snapshot_at_time")
    /\ ~IsRaised(call.outcome)
    /\ call.outcome.value # None
    /\ \E i \in 1..Len(history) :
          /\ history[i]["_timestamp"] > call.target_time
          /\ \A j \in 1..Len(history) :
                history[j]["_timestamp"] <= call.target_time
                => history[i]["_timestamp"] - call.target_time
                     < call.target_time - history[j]["_timestamp"]

\* C9: no operation of the core changes the History it was given.
C9_HistoryNeverMutated == [][history' = history]_vars

\* C9 witness: features were extracted from a History that is not in
\* chronological order, so the observations had to be sorted.
C9_Witness ==
    /\ CallIs("extract_features")
    /\ call.outcome.value # None
    /\ \E i \in 1..(Len(history) - 1) :
          history[i]["_timestamp"] > history[i + 1]["_timestamp"]

HasMalformed == \E i \in 1..Len(history) : ~WellFormed(history[i])

\* C10 (as claimed): with a snapshot that lacks "_timestamp" or "entries" in
\* the History, the extractor's constructor, run_backtest and the backtest
\* driver all end in an error.
C10_MalformedFailsLoudly ==
    HasMalformed =>
        /\ ~IsExtractor(extractor)
        /\ (CallIs("run_backtest") \/ CallIs("main")) => IsRaised(call.outcome)

-----------------------------------------------------------------------------
(* Properties of calculate_probabilities (SpecModel, SpecAnyWeights) *)

Calculated == probs # None

Included == {k \in DOMAIN features_by_subnet : features_by_subnet[k] # None}

SumOfProbabilities == SumOver(probs.num, DOMAIN probs.num)

\* |sum of the probabilities - 1.0| <= 0.01, on fractions with denominator den
SumNearOne == Abs(SumOfProbabilities - probs.den) <= probs.den \div 100

\* C1 (as claimed): for every non-empty features_by_subnet map the returned
\* probabilities sum to within 0.01 of 1.0.
C1_ProbabilityConservation ==
    (Calculated /\ DOMAIN features_by_subnet # {}) => SumNearOne

\* C1 (amended): for every features_by_subnet map with at least one non-null
\* feature vector the returned probabilities sum to within 0.01 of 1.0.
C1_ProbabilityConservationNonNull ==
    (Calculated /\ Included # {}) => SumNearOne

\* C1 witness: a map with two scored subnets and a null vector was normalised.
C1_Witness ==
    /\ Calculated
    /\ Cardinality(Included) >= 2
    /\ Included # DOMAIN features_by_subnet
    /\ SumNearOne

AllScoresZero == \A k \in Included : calculate_score(model, features_by_subnet[k]) = 0

\* C6: if the composite score of every included subnet is 0, the call returns
\* 1/n for each of the n included subnets and raises no ZeroDivisionError.
C6_UniformFallback ==
    (Calculated /\ Included # {} /\ AllScoresZero)
    => /\ ~IsRaised(probs)
       /\ DOMAIN probs.num = Included
       /\ \A k \in Included : probs.num[k] * Cardinality(Included) = probs.den

\* C6 witness: two or more subnets, all with score 0, got a uniform result.
C6_Witness ==
    /\ Calculated
    /\ Cardinality(Included) >= 2
    /\ AllScoresZero
    /\ ~IsRaised(probs)
    /\ \A k \in Included : probs.num[k] = 1 /\ probs.den = Cardinality(Included)

\* Two subnets of one call whose vectors differ in current_rank alone, 1 against 5
Rank1Against5(a, b) ==
    /\ a \in Included
    /\ b \in Included
    /\ features_by_subnet[a].current_rank = 1
    /\ features_by_subnet[b] = [features_by_subnet[a] EXCEPT !.current_rank = 5]

\* C7: of two subnets identical except for current_rank 1 against 5, the one
\* at rank 1 gets the strictly higher probability, whatever days_until is.
C7_Rank1Dominance ==
    Calculated =>
        \A a, b \in DOMAIN features_by_subnet :
            Rank1Against5(a, b) => probs.num[a] > probs.num[b]

\* C7 witness: such a pair, both scores at the clamp of 1.0 and the target 30
\* days or more ahead (the time adjustment of the penalty at its largest).
C7_Witness ==
    /\ Calculated
    /\ DaysUntil(target_date, now) >= 30
    /\ \E a, b \in DOMAIN features_by_subnet :
          /\ Rank1Against5(a, b)
          /\ calculate_score(model, features_by_subnet[a]) = One * One
          /\ calculate_score(model, features_by_subnet[b]) = One * One
          /\ probs.num[a] > probs.num[b]

-----------------------------------------------------------------------------
(* Properties of the backtest harness (SpecGate, SpecBrier) *)

\* Number of snapshots of the History at or before an instant
RECURSIVE CountNotAfter(_, _)
CountNotAfter(h, t) ==
    IF h = <<>> THEN 0
    ELSE (IF Head(h)["_timestamp"] <= t THEN 1 ELSE 0) + CountNotAfter(Tail(h), t)

\* C5 (as claimed): run_backtest returns status insufficient_data when 47 or
\* fewer snapshots lie at or before test_date; with exactly 48 it returns a
\* result whose status is not insufficient_data.
C5_MinimumDataGate ==
    CallIs("run_backtest") =>
        LET k == CountNotAfter(history, call.test_date)
        IN /\ k <= 47 => /\ ~IsRaised(call.outcome)
                         /\ call.outcome.value.status = "insufficient_data"
           /\ k = 48 => /\ ~IsRaised(call.outcome)
                        /\ call.outcome.value.status # "insufficient_data"

Successes == { i \in 1..Len(tests) : tests[i].status = "success" }

\* C8: over the results with status success, the score is the mean of
\* (predicted_probability - outcome)^2; other results do not count; all
\* correct at probability 1 gives 0, all wrong at probability 1 gives 1.
C8_BrierScore ==
    (brier # None /\ Successes # {}) =>
        /\ brier.count = Cardinality(Successes)
        /\ brier.sum = SumOver([i \in Successes |->
                                  (tests[i].predicted_probability
                                     - (IF tests[i].prediction_correct THEN One ELSE 0)) ^ 2],
                               Successes)
        /\ (\A i \in Successes : tests[i] = SuccessResult(One, TRUE)) => brier.sum = 0
        /\ (\A i \in Successes : tests[i] = SuccessResult(One, FALSE))
              => brier.sum = brier.count * One * One

\* C8 witness: a list with two scored results, one right and one wrong, and a
\* result of another status between them was scored.
C8_Witness ==
    /\ brier # None
    /\ Cardinality(Successes) = 2
    /\ Len(tests) = 3
    /\ tests[2].status # "success"
    /\ tests[1].prediction_correct
    /\ ~tests[3].prediction_correct
    /\ brier.count = 2

-----------------------------------------------------------------------------
(* Properties of run_backtest past the minimum-data gate (specification SpecGate) *)

\* The ids listed by a snapshot, and by the snapshots at or before test_date
IdsIn(snapshot) ==
    IF HasEntries(snapshot)
    THEN { snapshot["entries"][i].id : i \in 1..Len(snapshot["entries"]) }
    ELSE {}

TrainingIds(h, test_date) ==
    UNION { IdsIn(h[i]) : i \in { j \in 1..Len(h) : h[j]["_timestamp"] <= test_date } }

\* A subnet listed by every snapshot at or before test_date
SeenThroughout(h, test_date) ==
    \E id \in TrainingIds(h, test_date) :
        \A i \in 1..Len(h) : h[i]["_timestamp"] <= test_date => id \in IdsIn(h[i])

\* The number of observations of a subnet in a list of snapshots
RECURSIVE CountObservations(_, _)
CountObservations(h, netuid) ==
    IF h = <<>> THEN 0
    ELSE (IF HasEntries(Head(h)) THEN CountIds(Head(h)["entries"], netuid) ELSE 0)
         + CountObservations(Tail(h), netuid)

\* The snapshot the ground truth of a backtest is read from
GroundTruth(h, test_date, prediction_window_days) ==
    find_snapshot_at_time(h, test_date + prediction_window_days * TicksPerDay)

\* The id at rank 1 of a snapshot, None when there is none
RankOneOf(snapshot) ==
    IF snapshot = None \/ ~HasEntries(snapshot) THEN None
    ELSE LET e == snapshot["entries"]
             at1 == { i \in 1..Len(e) : e[i].rank = 1 }
         IN IF at1 = {} THEN None
            ELSE e[CHOOSE i \in at1 : \A j \in at1 : i <= j].id

\* C11 (as claimed): with 48 or more snapshots at or before test_date and a
\* subnet observed throughout them, when the snapshot found for target_date
\* lists none of the subnets seen in training (or no snapshot is found),
\* run_backtest returns a result with status success, actual_rank null and
\* prediction_correct false.
C11_MissingGroundTruthScored ==
    CallIs("run_backtest") =>
        LET truth == GroundTruth(history, call.test_date, call.prediction_window_days)
        IN ( /\ CountNotAfter(history, call.test_date) >= 48
             /\ SeenThroughout(history, call.test_date)
             /\ \/ truth.value = None
                \/ IdsIn(truth.value) \cap TrainingIds(history, call.test_date) = {} )
           => /\ ~IsRaised(call.outcome)
              /\ call.outcome.value.status = "success"
              /\ call.outcome.value.actual_rank = None
              /\ call.outcome.value.prediction_correct = FALSE

\* C12 (as claimed): with 48 or more snapshots at or before test_date of which
\* no subnet is observed three times, run_backtest returns a result with
\* status no_features.
C12_NoFeaturesStatus ==
    CallIs("run_backtest") =>
        LET training_data == TrainingData(history, call.test_date)
        IN ( /\ Len(training_data) >= 48
             /\ \A id \in TrainingIds(history, call.test_date) :
                    CountObservations(training_data, id) < 3 )
           => /\ ~IsRaised(call.outcome)
              /\ call.outcome.value.status = "no_features"

\* C13 (as claimed): the outcome of run_backtest is the same when every
\* snapshot later than test_date is removed, except for the ground truth,
\* which a result past the minimum-data gate reads from the whole History:
\* its actual_rank1_netuid is the rank-1 subnet of the snapshot found for
\* target_date there.
C13_NoLookahead ==
    CallIs("run_backtest") =>
        LET training_data == TrainingData(history, call.test_date)
            truth == GroundTruth(history, call.test_date, call.prediction_window_days)
        IN /\ Len(training_data) < 48 =>
                 call.outcome = run_backtest(training_data, call.test_date,
                                             call.prediction_window_days)
           /\ Len(training_data) >= 48 =>
                 /\ ~IsRaised(call.outcome)
                 /\ call.outcome.value.status \in {"success", "no_features"}
                 /\ call.outcome.value.status = "success" =>
                        call.outcome.value.actual_rank1_netuid = RankOneOf(truth.value)

-----------------------------------------------------------------------------
(* Properties of the sweep (specifications SpecSweep, SpecSweepFair) *)

\* The test dates of the claim: oldest + 28 days + k * BACKTEST_DAYS for
\* k = 0..9, as far as they are not after newest - window_days
ExpectedDates(oldest, newest, window_days, backtest_days) ==
    LET first == oldest + 28 * TicksPerDay
        last == newest - window_days * TicksPerDay
        ks == { k \in 0..9 : first + k * backtest_days * TicksPerDay <= last }
    IN [i \in 1..Cardinality(ks) |-> first + (i - 1) * backtest_days * TicksPerDay]

\* A window has been swept: skipped, left after its last test, or aborted
WindowSwept == sweep.pc \in {"for", "done", "raised"} /\ sweep.next > 1

\* C14 (as claimed): for a BACKTEST_DAYS of 0 or more, the test dates a window
\* hands to run_backtest are, in this order, oldest + 28 days + k *
\* BACKTEST_DAYS (k = 0..9) as far as they are not after newest - window_days
\* (one date when oldest + 28 days equals newest - window_days), and every
\* target date is at or before the newest snapshot.
C14_SweepDates ==
    (WindowSwept /\ env.BACKTEST_DAYS >= 0) =>
        /\ sweep.dates = ExpectedDates(sweep.oldest, sweep.newest, sweep.window_days,
                                       env.BACKTEST_DAYS)
        /\ \A i \in 1..Len(sweep.dates) :
              sweep.dates[i] + sweep.window_days * TicksPerDay <= sweep.newest

Terminated == sweep.pc \in {"done", "raised"}

\* C15: in every window the sweep makes at most 10 run_backtest calls, and the
\* driver terminates, for every span of the History and every BACKTEST_DAYS
\* (0 and negative values included).
C15_SweepTerminates ==
    /\ [](sweep.test_count <= 10 /\ Len(sweep.dates) <= 10)
    /\ (sweep.pc = "while") ~> (sweep.pc # "while")
    /\ (sweep.pc # "load") ~> Terminated

\* C15 witness: with BACKTEST_DAYS = 0 the driver has finished and its last
\* window ran 10 tests, all at the same test date.
C15_Witness ==
    /\ sweep.pc = "done"
    /\ env.BACKTEST_DAYS = 0
    /\ sweep.test_count = 10
    /\ Len(sweep.dates) = 10
    /\ sweep.current_test_date = sweep.test_start

-----------------------------------------------------------------------------
(* Properties of the collectors (specification SpecCollect) *)

CollectorRan == CallIs("publish_top_history") \/ CallIs("backfill_subnet_history")

\* C16: in every snapshot a collector run produces for top_subnets_history
\* the ranks of the entries are 1, 2, ..., len(entries) in this order.
C16_RanksAscending ==
    CollectorRan =>
        \A i \in 1..Len(call.snapshots) :
            LET entries == call.snapshots[i]["entries"]
            IN \A r \in 1..Len(entries) : entries[r].rank = r

\* C16 witness: a backfill run built ten or more snapshots from Taostats
\* records that arrive with the smaller emission first and with a record
\* without netuid; each snapshot ranks subnet 2 before subnet 1.
C16_Witness ==
    /\ CallIs("backfill_subnet_history")
    /\ Len(call.snapshots) >= 10
    /\ \A i \in 1..Len(call.snapshots) :
          LET entries == call.snapshots[i]["entries"]
          IN /\ Len(entries) = 2
             /\ entries[1].id = "2" /\ entries[1].rank = 1
             /\ entries[2].id = "1" /\ entries[2].rank = 2

\* The snapshots stored under top_subnets_history
StoredSnapshots(store) ==
    LET stored == get_from_kv(store, HistoryKey, TRUE)
    IN IF stored # None /\ IsList(stored) THEN stored.list ELSE << >>

\* C17 (as claimed): every snapshot stored before a collector run is still
\* stored after it, and the number of stored snapshots does not decrease.
C17_AppendOnly ==
    [][ LET before == StoredSnapshots(kv)
            after == StoredSnapshots(kv')
        IN /\ \A i \in 1..Len(before) : \E j \in 1..Len(after) : after[j] = before[i]
           /\ Len(after) >= Len(before) ]_vars

-----------------------------------------------------------------------------
(* Properties of the metrics helpers (specification SpecMetrics) *)

\* The per-day deltas, each selected by the later sample of its own pair
RECURSIVE RecentOfPairs(_, _, _)
RecentOfPairs(hist, i, cutoff) ==
    IF i >= Len(hist) THEN << >>
    ELSE LET dt == hist[i + 1].ts - hist[i].ts
             per_day == ((hist[i + 1].issuance - hist[i].issuance) * SecondsPerDay) \div dt
         IN IF dt > 0 /\ hist[i + 1].ts >= cutoff
            THEN << per_day >> \o RecentOfPairs(hist, i + 1, cutoff)
            ELSE RecentOfPairs(hist, i + 1, cutoff)

\* The per-day deltas of the pairs with increasing timestamps whose later
\* sample is not before the cutoff
DeltasInWindow ==
    RecentOfPairs(args.hist, 1, args.now_ts - args.days * SecondsPerDay)

\* C18 (as claimed): when some per-day delta has its own later sample at or
\* after now_ts - days * 86400, avg_for_days returns the mean of exactly
\* those deltas, negative ones included, each delta going with the pair of
\* samples it came from.
C18_AverageOfWindow ==
    (CallIs("avg_for_days") /\ DeltasInWindow # << >>) =>
        /\ call.outcome.value # None
        /\ call.outcome.value.sum * Len(DeltasInWindow)
              = SumSeq(DeltasInWindow) * call.outcome.value.count

-----------------------------------------------------------------------------
(* Properties of the snapshot lookup (specification Spec) *)

\* Positions of the snapshots at or before the target of the call
NotAfterTarget ==
    { i \in 1..Len(history) : history[i]["_timestamp"] <= call.target_time }

\* C19: find_snapshot_at_time returns None exactly when no snapshot is at or
\* before the target; otherwise it returns a snapshot with the latest timestamp
\* at or before the target, whatever the order of the list, and among
\* snapshots with that timestamp the first of the list.
C19_LatestNotAfter ==
    (CallIs("find_snapshot_at_time") /\ ~IsRaised(call.outcome)) =>
        /\ (call.outcome.value = None) <=> (NotAfterTarget = {})
        /\ NotAfterTarget # {} =>
              \E i \in NotAfterTarget :
                 /\ call.outcome.value = history[i]
                 /\ \A j \in NotAfterTarget :
                       /\ history[j]["_timestamp"] <= history[i]["_timestamp"]
                       /\ history[j]["_timestamp"] = history[i]["_timestamp"] => i <= j

\* C19 witness: a list that is not in time order, with two different
\* snapshots at the latest timestamp before the target and an older snapshot
\* after them; the first of the two was returned.
C19_Witness ==
    /\ CallIs("find_snapshot_at_time")
    /\ ~IsRaised(call.outcome)
    /\ Len(history) = 3
    /\ NotAfterTarget = {1, 2, 3}
    /\ history[1]["_timestamp"] = history[2]["_timestamp"]
    /\ history[1] # history[2]
    /\ history[3]["_timestamp"] < history[1]["_timestamp"]
    /\ history[1]["_timestamp"] < call.target_time
    /\ call.outcome.value = history[1]

-----------------------------------------------------------------------------
(* Properties of a prediction run (specification SpecPredict) *)

\* The run built its extractor; history holds the list the extractor was given
ExtractorBuilt == CallIs("predict_main") /\ IsExtractor(extractor)

NewestTimestamp(h) ==
    CHOOSE t \in { h[i]["_timestamp"] : i \in 1..Len(h) } :
        \A i \in 1..Len(h) : h[i]["_timestamp"] <= t

\* Positions of the snapshots at or after cutoff that list the subnet
KeptPositions(h, cutoff, id) ==
    { i \in 1..Len(h) : h[i]["_timestamp"] >= cutoff /\ id \in IdsIn(h[i]) }

\* C20 (as claimed): the History given to the extractor is sorted oldest
\* first, the cutoff is the newest timestamp of the loaded History minus
\* lookback_days, and the index holds for every subnet exactly its
\* observations in the snapshots at or after that cutoff.
C20_SortedByCaller ==
    ExtractorBuilt =>
        LET cutoff == NewestTimestamp(history) - env.LOOKBACK_DAYS * TicksPerDay
        IN /\ \A i, j \in 1..Len(history) :
                 i <= j => history[i]["_timestamp"] <= history[j]["_timestamp"]
           /\ extractor.cutoff_time = cutoff
           /\ \A id \in UNION { IdsIn(history[i]) : i \in 1..Len(history) } :
                 /\ Len(SnapshotsOf(extractor, id))
                       = Cardinality(KeptPositions(history, cutoff, id))
                 /\ { o.timestamp : o \in Range(SnapshotsOf(extractor, id)) }
                       = { history[i]["_timestamp"] : i \in KeptPositions(history, cutoff, id) }

-----------------------------------------------------------------------------
(* Properties of the feature vector (specifications Spec, SpecFeatures) *)

\* extract_features returned a feature vector
GotFeatures == CallIs("extract_features") /\ call.outcome.value # None

\* Positions of the snapshots inside the extractor's window that list the subnet
Observed(netuid) ==
    { i \in 1..Len(history) :
        /\ history[i]["_timestamp"] >= extractor.cutoff_time
        /\ netuid \in IdsIn(history[i]) }

\* The order of the subnet's observations: by timestamp, and by position in
\* the History among equal timestamps
Before(i, j) ==
    \/ history[i]["_timestamp"] < history[j]["_timestamp"]
    \/ history[i]["_timestamp"] = history[j]["_timestamp"] /\ i < j

\* The position of the observation that has k later observations of the subnet
FromEnd(netuid, k) ==
    CHOOSE i \in Observed(netuid) :
        Cardinality({ j \in Observed(netuid) : Before(i, j) }) = k

\* The entry of the subnet in the snapshot at position i
EntryAt(netuid, i) ==
    LET entries == history[i]["entries"]
    IN entries[CHOOSE k \in 1..Len(entries) : entries[k].id = netuid]

\* C21 (as claimed): rank_delta_recent is the subnet's rank two observations
\* before its latest one minus its current rank.
C21_RecentDeltaTwoAgo ==
    GotFeatures =>
        call.outcome.value.rank_delta_recent
            = EntryAt(call.netuid, FromEnd(call.netuid, 2)).rank
                - EntryAt(call.netuid, FromEnd(call.netuid, 0)).rank

\* C21 (amended): rank_delta_recent is the subnet's rank at the observation
\* just before its latest one minus its current rank.
C21_RecentDeltaPrevious ==
    GotFeatures =>
        call.outcome.value.rank_delta_recent
            = EntryAt(call.netuid, FromEnd(call.netuid, 1)).rank
                - EntryAt(call.netuid, FromEnd(call.netuid, 0)).rank

\* C21 witness: the subnet moved from rank 2 to rank 1 between its previous
\* and its latest observation, having been at rank 1 two observations ago,
\* in a History that is not in time order.
C21_Witness ==
    /\ GotFeatures
    /\ EntryAt(call.netuid, FromEnd(call.netuid, 2)).rank = 1
    /\ EntryAt(call.netuid, FromEnd(call.netuid, 1)).rank = 2
    /\ EntryAt(call.netuid, FromEnd(call.netuid, 0)).rank = 1
    /\ call.outcome.value.rank_delta_recent = 1
    /\ \E i \in 1..(Len(history) - 1) :
          history[i]["_timestamp"] > history[i + 1]["_timestamp"]

\* The number of the subnet's observations inside the window
ObservedCount(netuid) == Cardinality(Observed(netuid))

\* The emission of the observation with k later observations
ValueFromEnd(netuid, k) == EntryAt(netuid, FromEnd(netuid, k)).value

\* C22 (as claimed): emission_momentum is 0 with fewer than 4 observations in
\* the window; with 4 or more it is the latest percent change minus the
\* percent change one step further back.
C22_MomentumOneStepBack ==
    GotFeatures =>
        call.outcome.value.emission_momentum
            = IF ObservedCount(call.netuid) < 4 THEN 0
              ELSE PctChange(ValueFromEnd(call.netuid, 0), ValueFromEnd(call.netuid, 1))
                   - PctChange(ValueFromEnd(call.netuid, 1), ValueFromEnd(call.netuid, 2))

\* Positions of the subnet's observations at most 7 days (168 hours) older
\* than its latest one
WithinSevenDays(netuid) ==
    { i \in Observed(netuid) :
        history[FromEnd(netuid, 0)]["_timestamp"] - history[i]["_timestamp"]
            <= 7 * TicksPerDay }

\* The earliest of them
Baseline(netuid) ==
    CHOOSE i \in WithinSevenDays(netuid) :
        \A j \in WithinSevenDays(netuid) : j = i \/ Before(i, j)

\* C23 (as claimed): the 7-day features take as baseline the earliest
\* observation at most 168 hours older than the subnet's latest one, and
\* equal the recent features when that sub-window holds fewer than 2
\* observations.
C23_SevenDayBaseline ==
    GotFeatures =>
        LET f == call.outcome.value
            latest == EntryAt(call.netuid, FromEnd(call.netuid, 0))
            baseline == EntryAt(call.netuid, Baseline(call.netuid))
        IN IF Cardinality(WithinSevenDays(call.netuid)) >= 2
           THEN /\ f.rank_delta_7d = baseline.rank - latest.rank
                /\ f.emission_pct_change_7d = PctChange(latest.value, baseline.value)
           ELSE /\ f.rank_delta_7d = f.rank_delta_recent
                /\ f.emission_pct_change_7d = f.emission_pct_change_recent

\* Positions of the subnet's observations in the window with rank 3 or better
InTop3(netuid) ==
    { i \in Observed(netuid) : EntryAt(netuid, i).rank <= 3 }

\* The calendar days that have such an observation
Top3Dates(netuid) == { DateOf(history[i]["_timestamp"]) : i \in InTop3(netuid) }

\* C24: top3_tenure is min(1, D / 14) for D the number of distinct calendar
\* days with an observation of the subnet at rank 3 or better; observations
\* of one day count once.
C24_TenureDistinctDays ==
    GotFeatures =>
        call.outcome.value.top3_tenure
            = Min(One, (One * Cardinality(Top3Dates(call.netuid))) \div 14)

\* C24 witness: three observations in the top 3 on two calendar days, and one
\* outside the top 3, in a History stored newest first.
C24_Witness ==
    /\ GotFeatures
    /\ Cardinality(InTop3(call.netuid)) = 3
    /\ Cardinality(Top3Dates(call.netuid)) = 2
    /\ ObservedCount(call.netuid) = 4
    /\ history[1]["_timestamp"] > history[Len(history)]["_timestamp"]
    /\ call.outcome.value.top3_tenure = (One * 2) \div 14

-----------------------------------------------------------------------------
(* Properties of format_prediction_output (specification SpecFormat) *)

Formatted == call # None /\ call.op = "format_prediction_output"

\* The probability items of the subnets that have a feature vector
Listable ==
    { i \in DOMAIN probs.list : probs.list[i].netuid \in DOMAIN features_by_subnet }

\* C25: the predictions are listed in non-increasing order of probability,
\* one for each item whose subnet has features, and top_5_contenders is the
\* first min(5, n) of them in the same order.
C25_SortedAndTopFive ==
    Formatted =>
        LET out == call.outcome.value
            n == Len(out.predictions)
        IN /\ n = Cardinality(Listable)
           /\ \A i \in Listable :
                 \E k \in 1..n : out.predictions[k].netuid = IntOf(probs.list[i].netuid)
           /\ \A i, j \in Listable :
                 ~AtLeast(probs.list[j], probs.list[i]) =>
                    \E k, l \in 1..n :
                       /\ k < l
                       /\ out.predictions[k].netuid = IntOf(probs.list[i].netuid)
                       /\ out.predictions[l].netuid = IntOf(probs.list[j].netuid)
           /\ \A k \in 1..(n - 1) :
                 out.predictions[k].probability >= out.predictions[k + 1].probability
           /\ Len(out.top_5_contenders) = Min(5, n)
           /\ \A k \in 1..Min(5, n) :
                 /\ out.top_5_contenders[k].netuid = out.predictions[k].netuid
                 /\ out.top_5_contenders[k].name = out.predictions[k].subnet_name
                 /\ out.top_5_contenders[k].probability = out.predictions[k].probability

\* More than five predictions out of items that were not in order, one item
\* skipped for want of features
C25_Witness ==
    /\ Formatted
    /\ Len(call.outcome.value.predictions) > 5
    /\ Len(call.outcome.value.top_5_contenders) = 5
    /\ Cardinality(Listable) < Len(probs.list)
    /\ \E i, j \in Listable : i < j /\ ~AtLeast(probs.list[i], probs.list[j])
    /\ call.outcome.value.predictions[5].probability
          > call.outcome.value.predictions[6].probability

-----------------------------------------------------------------------------
(* Properties of a prediction run, step by step (specification SpecRun) *)

RunDone == call.pc = "done"

\* The run has loaded a history that is missing, no list, or too short
LoadedUnusable ==
    /\ call.pc \notin {"validate", "fetch"}
    /\ ~(/\ call.loaded # None /\ IsList(call.loaded)
         /\ Len(call.loaded.list) >= env.MIN_DATA_POINTS)

\* The store holds the output of this run under subnet_predictions
StoredByRun ==
    /\ PredictionsKey \in DOMAIN kv
    /\ kv[PredictionsKey] = RunOutput(call.all_predictions, now, env.LOOKBACK_DAYS,
                                      env.MIN_DATA_POINTS)

\* C26: a run whose loaded history is missing, no list or shorter than
\* MIN_DATA_POINTS never extracts features and never writes; the run calls
\* put_to_kv at most once, only with a prediction for every target date, the
\* store changes by that call alone, and the run exits 0 exactly when the
\* write succeeded.
C26_GatedSingleWrite ==
    /\ [](LoadedUnusable =>
             /\ RunDone /\ call.outcome = Exit(1)
             /\ extractor = None /\ features_by_subnet = << >>
             /\ call.writes = 0)
    /\ [][LoadedUnusable => kv' = kv]_vars
    /\ [](call.writes <= 1)
    /\ [][call'.writes # call.writes =>
             /\ Len(call.all_predictions) = Len(call.target_dates)
             /\ call.target_dates # << >>
             /\ call'.pc = "done"]_vars
    /\ [][kv' # kv => call'.writes = call.writes + 1]_vars
    /\ [](RunDone => (call.outcome = Exit(0) <=> call.writes = 1 /\ StoredByRun))

\* A run over two target dates that replaced the predictions of an earlier
\* run and exited 0
C26_Witness ==
    /\ RunDone
    /\ call.outcome = Exit(0)
    /\ Len(call.all_predictions) = 2
    /\ call.all_predictions[1].predictions # << >>
    /\ StoredByRun

-----------------------------------------------------------------------------
(* Properties of the time horizon (specifications SpecModel, SpecGate) *)

\* calculate_probabilities does not tell apart target dates less than two
\* days after the current time: days_until is 1 for each of them
NearTargetsAlike ==
    (probs # None /\ target_date < now + 2 * TicksPerDay) =>
        /\ DaysUntil(target_date, now) = 1
        /\ \A t \in (now - 3 * TicksPerDay)..(now + 2 * TicksPerDay - 1) :
              calculate_probabilities(model, features_by_subnet, t, now) = probs

\* C27 (as claimed): target dates less than two days after the current time
\* give the same probabilities, so a run_backtest with 48 or more snapshots at
\* or before test_date predicts with days_until = 1, and what it predicts is
\* the same for every prediction_window_days.
C27_BacktestWindowIndependent ==
    CallIs("run_backtest") =>
        ( Len(TrainingData(history, call.test_date)) >= 48 =>
            /\ ~IsRaised(call.outcome)
            /\ \A w \in Range(BACKTEST_PREDICTION_WINDOWS) :
                  LET other == run_backtest(history, call.test_date, w)
                  IN /\ ~IsRaised(other)
                     /\ other.value.status = call.outcome.value.status
                     /\ other.value.status = "success" =>
                           other.value.top_5_predictions
                              = call.outcome.value.top_5_predictions )

-----------------------------------------------------------------------------
(* Properties of the scores of a prediction run (specification SpecRun) *)

\* The run has extracted features and built the model
RunExtracted == call.pc \in {"predict", "store", "done"} /\ model # None

\* The adjusted scores calculate_probabilities sums for one target date
AdjustedScores(mdl, fbs, target, t_now) ==
    [k \in DOMAIN fbs |->
        calculate_score(mdl, fbs[k])
        * position_penalty(mdl, fbs[k].current_rank, DaysUntil(target, t_now))]

\* C28: with the production weights and penalties every feature vector a run
\* extracts has a composite score in (0, 1], every position penalty is
\* positive, and the probabilities of the run are its adjusted scores over
\* their positive sum: the uniform fallback is not taken.
C28_FallbackUnreachable ==
    RunExtracted =>
        /\ model = NewModel(FEATURE_WEIGHTS, POSITION_PENALTIES)
        /\ \A k \in DOMAIN features_by_subnet :
              /\ calculate_score(model, features_by_subnet[k]) > 0
              /\ calculate_score(model, features_by_subnet[k]) <= One * One
        /\ \A rank \in 0..(Len(POSITION_PENALTIES) + 2),
              days_until \in 1..(DEFAULT_TARGET_DAYS_AHEAD + 15) :
              position_penalty(model, rank, days_until) > 0
        /\ (probs # None /\ DOMAIN features_by_subnet # {}) =>
              LET adjusted == AdjustedScores(model, features_by_subnet, target_date, now)
              IN /\ SumOver(adjusted, DOMAIN adjusted) > 0
                 /\ probs = Fractions(adjusted, SumOver(adjusted, DOMAIN adjusted))

\* Probabilities of a run whose subnets emit nothing
C28_Witness ==
    /\ RunExtracted
    /\ probs # None
    /\ DOMAIN features_by_subnet # {}
    /\ \A k \in DOMAIN features_by_subnet : features_by_subnet[k].current_emission = 0
    /\ \E k \in DOMAIN features_by_subnet : features_by_subnet[k].current_rank > 1

-----------------------------------------------------------------------------
(* Properties of overlapping collector runs (specification SpecRace) *)

AllRunsDone == \A r \in 1..MaxRuns : args[r].pc = "done"

ReportedSuccess(run) == run.outcome = Returned(TRUE)

\* A snapshot with the timestamp of s is stored
StoredAt(s) ==
    \E i \in 1..Len(StoredSnapshots(kv)) :
        /\ HasTimestamp(StoredSnapshots(kv)[i])
        /\ StoredSnapshots(kv)[i]["_timestamp"] = s["_timestamp"]

\* The stored History is as long as a trim leaves it
Trimmed == Len(StoredSnapshots(kv)) >= Min(env.MAX_HISTORY_ENTRIES, MAX_ENTRIES)

\* C29 (as claimed): whatever the interleaving of the reads and writes of
\* the runs, once all runs have finished every snapshot of a run that
\* reported a successful write is in the stored History, unless the History
\* was trimmed to its maximum.
C29_NoLostUpdate ==
    AllRunsDone =>
        \A r \in 1..MaxRuns :
            ReportedSuccess(args[r]) =>
                \A i \in 1..Len(args[r].snapshots) :
                    StoredAt(args[r].snapshots[i]) \/ Trimmed

-----------------------------------------------------------------------------
(* Properties of the metrics service (specification SpecService) *)

Requests == 1..MaxRequests

AllAnswered == \A r \in Requests : args.requests[r].pc = "done"

\* Any two requests arrived less than CACHE_TTL seconds apart
ArrivedTogether ==
    \A r, q \in Requests :
        Abs(args.requests[r].arrived - args.requests[q].arrived) < env.CACHE_TTL

Gatherers == { r \in Requests : args.requests[r].gathered }

\* The requests whose call of gather_metrics returned
Suppliers == { r \in Gatherers : args.requests[r].pc = "done"
                                 /\ ~IsRaised(args.requests[r].response) }

NoOverlap == Cardinality({ r \in Requests : args.requests[r].pc = "gathering" }) <= 1

\* C30 (as claimed): two executions of gather_metrics never overlap, and of
\* requests that arrived within CACHE_TTL seconds of each other on an empty
\* cache exactly one called gather_metrics and the others returned the data
\* it cached.
C30_SingleGather ==
    /\ NoOverlap
    /\ (AllAnswered /\ ArrivedTogether) =>
          \E g \in Requests :
              /\ Gatherers = {g}
              /\ \A r \in Requests \ {g} :
                    args.requests[r].response = args.requests[g].response

\* C30 (amended): two executions of gather_metrics never overlap; of requests
\* that arrived within CACHE_TTL seconds of each other on an empty cache at
\* most one call of gather_metrics returned, every request that did not call
\* it returned the data that call cached, and every other request called
\* gather_metrics itself and got its exception; when no call raised, exactly
\* one request called gather_metrics.
C30_SingleSupplier ==
    /\ NoOverlap
    /\ (AllAnswered /\ ArrivedTogether) =>
          /\ Cardinality(Suppliers) <= 1
          /\ \A r \in Requests \ Gatherers :
                \E g \in Suppliers :
                    /\ args.requests[r].response = args.requests[g].response
                    /\ args.cache.data = args.requests[g].response.value
          /\ \A r \in Gatherers \ Suppliers : IsRaised(args.requests[r].response)
          /\ (Gatherers = Suppliers) => Cardinality(Gatherers) = 1

\* Requests that arrived at different times within CACHE_TTL seconds; the
\* first call of gather_metrics raised, the second one returned, a third
\* request waited meanwhile and returned the cached data
C30_Witness ==
    /\ AllAnswered /\ ArrivedTogether
    /\ \E r, q \in Requests : args.requests[r].arrived # args.requests[q].arrived
    /\ Cardinality(Gatherers) = 2
    /\ Cardinality(Suppliers) = 1
    /\ Requests \ Gatherers # {}

=============================================================================
